---- MODULE Spec2Model ----
(***************************************************************************)
(* Feature-extraction pipeline of lol-counter-quiz: the event scans of     *)
(* augment_objectives.compute_features and augment_more.count_wards, the   *)
(* fixed-index team snapshots of build_dataset, and the left merges of the *)
(* augment_* stages.                                                       *)
(***************************************************************************)
EXTENDS Integers, Sequences, FiniteSets, TLC

VARIABLES
    \* ---- event scans (compute_features / count_wards)
    scan,               \* which scan loop is running over the timeline
    pid2team,           \* participantId -> teamId of the match being scanned
    base,               \* compute_features: per-team counters
    first_blood_team,   \* compute_features: 0, 100 or 200
    first_drake_team,
    first_tower_team,
    first_herald_team,
    c,                  \* count_wards: per-team ward counters
    ev,                 \* the event the loop body has just processed
    nev,                \* number of events scanned so far
    \* ---- build_dataset.main, one match file
    participants,       \* info.participants of the match record
    tl,                 \* the paired timeline file: whether it exists, its info.frames
    bpc,                \* position in main's loop body
    mi,                 \* index into SNAP_MINUTES of the next snapshot minute
    team_base,          \* the team-level row under construction (a dict)
    team_rows,          \* rows appended to the team-level table
    \* ---- the augment scripts, run one after the other
    matchFiles,         \* stems of the files in match/
    tlFiles,            \* stems of the files in timeline/
    out,                \* the files in out/, by name
    stage,              \* the script to run next
    err,                \* the exception each script ended with, "" for none
    run,                \* which run of the chain this is
    shortIds,           \* stems whose match record holds 9 participants
    firstOut,           \* the files of out/ as the first run left them
    \* ---- the row functions of the augment scripts, on one timeline
    infoFrames,         \* info.frames of the timeline
    call,               \* the call made on it
    cutoff,             \* pick_frame: its cut_ms argument
    picked,             \* pick_frame: the frame it returned
    mrow,               \* augment_more.main: the row of the match
    reordered,          \* info.frames with its events in another order
    feats,              \* the event features of infoFrames
    featsReordered      \* the event features of reordered

mergeVars == <<matchFiles, tlFiles, out, stage, err, run, shortIds, firstOut>>

scanVars == <<scan, pid2team, base, first_blood_team, first_drake_team,
              first_tower_team, first_herald_team, c, ev, nev>>

buildVars == <<participants, tl, bpc, mi, team_base, team_rows>>

rowVars == <<infoFrames, call, cutoff, picked, mrow, reordered, feats, featsReordered>>

vars == <<scanVars, buildVars, mergeVars, rowVars>>

(***************************************************************************)
(* JSON values as the scripts see them: null, integers, strings.           *)
(***************************************************************************)
None == [k |-> "null"]
JInt(i) == [k |-> "int", n |-> i]
JStr(t) == [k |-> "str", s |-> t]

\* A table (pandas DataFrame, CSV file): ordered column names and rows
\* mapping each column to a value; None is a missing value (NaN).
Table(cols, rows) == [exists |-> TRUE, cols |-> cols, rows |-> rows]

\* A file that does not exist.
NoTable == [exists |-> FALSE, cols |-> <<>>, rows |-> <<>>]

\* The files of out/ and the scripts that write them.
OutFiles == {"participants.csv", "teams.csv", "objectives.csv", "teams_plus.csv", "more.csv",
             "teams_plus_more.csv", "champ_roles.csv", "teams_full.csv"}

Stages == <<"augment_objectives", "augment_more", "augment_champ_roles">>

NoErrors == [n \in 1..Len(Stages) |-> ""]

\* Strings of the model's universe that Python's int() accepts, with their
\* values: the decimal numerals of participant and team ids.
DecimalTable ==
    LET nums == 0..11 \cup {100, 200}
    IN [t \in {ToString(n) : n \in nums} |-> CHOOSE n \in nums : ToString(n) = t]

DecimalStrings == DOMAIN DecimalTable

DecimalValue(t) == DecimalTable[t]

\* int(v) succeeds: v is an integer or a decimal string.
IntConvertible(v) == v.k = "int" \/ (v.k = "str" /\ v.s \in DecimalStrings)

\* int(v) for a convertible v.
IntOf(v) == IF v.k = "int" THEN v.n ELSE DecimalValue(v.s)

\* Bounds of the model.
MaxEvents == 2
MaxFrames == 16

\* Cutoffs in milliseconds.
CUT10 == 10 * 60 * 1000
CUT14 == 14 * 60 * 1000
CUT15 == 15 * 60 * 1000

Teams == {100, 200}

(***************************************************************************)
(* Match records: info.participants as a sequence of participant objects.  *)
(***************************************************************************)
ROLES == <<"TOP", "JUNGLE", "MIDDLE", "BOTTOM", "UTILITY">>

Participant(pid, tid, role, champ) ==
    [participantId |-> pid, teamId |-> tid, teamPosition |-> role, championId |-> champ]

\* The regular match: participants 1..5 on team 100, 6..10 on team 200.
\* Each plays one of the five roles, with champion 10 + i.
FullMatch ==
    [i \in 1..10 |-> Participant(JInt(i), JInt(IF i <= 5 THEN 100 ELSE 200),
                                 JStr(ROLES[((i - 1) % 5) + 1]), JInt(10 + i))]

ScanMatches == {FullMatch}

RECURSIVE TeamMapFrom(_, _)
TeamMapFrom(parts, m) ==
    IF parts = <<>> THEN m
    ELSE LET p == Head(parts)
             m2 == IF p.participantId # None /\ p.teamId # None
                   THEN [q \in DOMAIN m \cup {IntOf(p.participantId)} |->
                           IF q = IntOf(p.participantId) THEN IntOf(p.teamId) ELSE m[q]]
                   ELSE m
         IN TeamMapFrom(Tail(parts), m2)

\* participantId -> teamId
get_participant_team_map(parts) == TeamMapFrom(parts, <<>>)

\* augment_more.get_pid2team builds the same map.
get_pid2team(parts) == TeamMapFrom(parts, <<>>)

\* Mutant of team_from_pid: an id missing from the map counts for team 100.
team_from_pid_default100(pid, p2t) ==
    IF pid = None THEN None
    ELSE IF ~IntConvertible(pid) THEN None
    ELSE IF IntOf(pid) \in DOMAIN p2t THEN JInt(p2t[IntOf(pid)]) ELSE JInt(100)

\* team_from_pid: None for a null, unconvertible or unmapped id.
team_from_pid(pid, p2t) ==
    IF pid = None THEN None
    ELSE IF ~IntConvertible(pid) THEN None
    ELSE IF IntOf(pid) \in DOMAIN p2t THEN JInt(p2t[IntOf(pid)]) ELSE None

InTeams(t) == t \in {JInt(100), JInt(200)}

update_counts(counts, team, field, inc) ==
    IF ~InTeams(team) THEN counts
    ELSE [counts EXCEPT ![team.n][field] = @ + inc]

(***************************************************************************)
(* Timeline events.  A field the event does not carry reads as None, as    *)
(* ev.get(...) does.                                                       *)
(***************************************************************************)
Event(type, ts, killerId, victimId, assists, creatorId, wardType, buildingType, monsterType, killerTeamId) ==
    [type |-> type, timestamp |-> ts, killerId |-> killerId, victimId |-> victimId,
     assistingParticipantIds |-> assists, creatorId |-> creatorId,
     wardType |-> wardType, buildingType |-> buildingType,
     monsterType |-> monsterType, killerTeamId |-> killerTeamId]

JList(l) == [k |-> "list", items |-> l]

\* Timestamps around each cutoff; None is an event without a timestamp.
Min5 == 5 * 60 * 1000
KillTimes == {JInt(Min5), JInt(CUT10), JInt(CUT10 + 1), JInt(CUT15), JInt(CUT15 + 1)}
PlateTimes == {JInt(Min5), JInt(CUT14), JInt(CUT14 + 1000), JInt(CUT15 + 1)}
LateTimes == {JInt(CUT15), JInt(CUT15 + 1)}
WardTimes == {JInt(CUT10), JInt(CUT10 + 1), JInt(CUT15), JInt(CUT15 + 1)}
OtherTimes == {None, JInt(Min5), JInt(CUT15 + 1)}

\* Participant references: team 100, team 200, unmapped, null, string forms.
ActorIds == {JInt(1), JInt(6), JInt(0), None}
StringIds == {JStr("6"), JStr("x")}
VictimIds == {JInt(1), JInt(6)}
AssistLists == {None, JList(<<JInt(2), JInt(7), JInt(0)>>)}

\* (killerId, killerTeamId) of building and monster kills.
KillerRefs == {<<JInt(1), None>>, <<JInt(6), None>>, <<JInt(1), JInt(200)>>,
               <<JInt(0), None>>, <<JInt(0), JInt(100)>>, <<JInt(0), JInt(200)>>,
               <<JInt(0), JInt(300)>>}

KillEvents ==
    {Event("CHAMPION_KILL", ts, k, v, a, None, None, None, None, None) :
        ts \in KillTimes, k \in ActorIds, v \in VictimIds, a \in AssistLists}

PlateEvents ==
    {Event("TURRET_PLATE_DESTROYED", ts, k, None, None, None, None, None, None, None) :
        ts \in PlateTimes, k \in ActorIds \cup StringIds}

BuildingEvents ==
    {Event("BUILDING_KILL", ts, r[1], None, None, None, None, JStr(b), None, r[2]) :
        ts \in LateTimes, r \in KillerRefs,
        b \in {"TOWER_BUILDING", "INHIBITOR_BUILDING"}}

MonsterEvents ==
    {Event("ELITE_MONSTER_KILL", ts, r[1], None, None, None, None, None, JStr(m), r[2]) :
        ts \in LateTimes, r \in KillerRefs, m \in {"DRAGON", "RIFTHERALD", "HORDE"}}

WardPlacedEvents ==
    {Event("WARD_PLACED", ts, None, None, None, cr, w, None, None, None) :
        ts \in WardTimes, cr \in {JInt(1), JInt(6), JInt(0), JStr("x")},
        w \in {None, JStr("CONTROL_WARD"), JStr("YELLOW_TRINKET")}}

WardKillEvents ==
    {Event("WARD_KILL", ts, k, None, None, None, None, None, None, None) :
        ts \in WardTimes, k \in ActorIds}

OtherEvents ==
    {Event("ITEM_PURCHASED", ts, None, None, None, None, None, None, None, None) :
        ts \in OtherTimes}
    \cup {Event("CHAMPION_KILL", JInt(Min5), JInt(1), v, None, None, None, None, None, None) :
            v \in {None, JInt(0), JStr("x")}}
    \cup {Event("CHAMPION_KILL", None, JInt(1), JInt(6), None, None, None, None, None, None),
          Event("WARD_PLACED", None, None, None, None, JInt(1), None, None, None, None)}

Events == KillEvents \cup PlateEvents \cup BuildingEvents \cup MonsterEvents
            \cup WardPlacedEvents \cup WardKillEvents \cup OtherEvents

\* The event slot before the first iteration.
NoEvent == Event("", None, None, None, None, None, None, None, None, None)

(***************************************************************************)
(* compute_features: the accumulator and one iteration of the event loop.  *)
(***************************************************************************)
ObjFields == {"k10", "d10", "a10", "k15", "d15", "a15",
              "plates14", "towers15", "drakes15", "herald15"}

ZeroBase == [t \in Teams |-> [f \in ObjFields |-> 0]]

ObjState(b, fb, fd, ft, fh) ==
    [base |-> b, first_blood_team |-> fb, first_drake_team |-> fd,
     first_tower_team |-> ft, first_herald_team |-> fh]

\* assists = ev.get("assistingParticipantIds") or []
AssistsOf(e) ==
    IF e.assistingParticipantIds = None THEN <<>> ELSE e.assistingParticipantIds.items

RECURSIVE CountAssists(_, _, _, _)
CountAssists(counts, assists, field, p2t) ==
    IF assists = <<>> THEN counts
    ELSE CountAssists(update_counts(counts, team_from_pid(Head(assists), p2t), field, 1),
                      Tail(assists), field, p2t)

\* Mutant of Latch: the `first == 0` test dropped.
LatchOverwrites(first, killer_team) ==
    IF InTeams(killer_team) THEN killer_team.n ELSE first

\* if first == 0 and killer_team in (100, 200): first = killer_team
Latch(first, killer_team) ==
    IF first = 0 /\ InTeams(killer_team) THEN killer_team.n ELSE first

\* killer team from killerId, falling back to the event's killerTeamId
KillerTeamWithFallback(e, p2t) ==
    LET killer_team == team_from_pid(e.killerId, p2t)
    IN IF ~InTeams(killer_team) /\ InTeams(e.killerTeamId)
       THEN e.killerTeamId ELSE killer_team

\* Mutant of ChampionKill: the 10-minute horizon excludes its boundary.
ChampionKillStrict10(st, e, p2t) ==
    LET killer_team == team_from_pid(e.killerId, p2t)
        victim_team == team_from_pid(e.victimId, p2t)
        b10 == IF e.timestamp.n < CUT10
               THEN CountAssists(
                        update_counts(update_counts(st.base, killer_team, "k10", 1),
                                      victim_team, "d10", 1),
                        AssistsOf(e), "a10", p2t)
               ELSE st.base
        b15 == CountAssists(
                   update_counts(update_counts(b10, killer_team, "k15", 1),
                                 victim_team, "d15", 1),
                   AssistsOf(e), "a15", p2t)
    IN [st EXCEPT !.first_blood_team = Latch(@, killer_team), !.base = b15]

\* Mutant of ChampionKill: first blood is looked for within 10 minutes only.
ChampionKillFirstBloodIn10(st, e, p2t) ==
    LET ts == e.timestamp.n
        killer_team == team_from_pid(e.killerId, p2t)
        victim_team == team_from_pid(e.victimId, p2t)
        assists == AssistsOf(e)
        b10 == IF ts <= CUT10
               THEN CountAssists(
                        update_counts(update_counts(st.base, killer_team, "k10", 1),
                                      victim_team, "d10", 1),
                        assists, "a10", p2t)
               ELSE st.base
        b15 == CountAssists(
                   update_counts(update_counts(b10, killer_team, "k15", 1),
                                 victim_team, "d15", 1),
                   assists, "a15", p2t)
    IN [st EXCEPT !.first_blood_team = IF ts <= CUT10 THEN Latch(@, killer_team) ELSE @,
                  !.base = b15]

ChampionKill(st, e, p2t) ==
    LET ts == e.timestamp.n
        killer_team == team_from_pid(e.killerId, p2t)
        victim_team == team_from_pid(e.victimId, p2t)
        assists == AssistsOf(e)
        b10 == IF ts <= CUT10
               THEN CountAssists(
                        update_counts(update_counts(st.base, killer_team, "k10", 1),
                                      victim_team, "d10", 1),
                        assists, "a10", p2t)
               ELSE st.base
        b15 == CountAssists(
                   update_counts(update_counts(b10, killer_team, "k15", 1),
                                 victim_team, "d15", 1),
                   assists, "a15", p2t)
    IN [st EXCEPT !.first_blood_team = Latch(@, killer_team), !.base = b15]

\* Mutant of TurretPlate: plates counted up to the 15-minute scan cutoff.
TurretPlateNoCut14(st, e, p2t) ==
    [st EXCEPT !.base = update_counts(@, team_from_pid(e.killerId, p2t), "plates14", 1)]

TurretPlate(st, e, p2t) ==
    IF e.timestamp.n <= CUT14
    THEN [st EXCEPT !.base = update_counts(@, team_from_pid(e.killerId, p2t), "plates14", 1)]
    ELSE st

\* Mutant of BuildingKill: every building counts as a tower.
BuildingKillAnyType(st, e, p2t) ==
    LET killer_team == KillerTeamWithFallback(e, p2t)
    IN [st EXCEPT !.first_tower_team = Latch(@, killer_team),
                  !.base = update_counts(@, killer_team, "towers15", 1)]

BuildingKill(st, e, p2t) ==
    IF e.buildingType = JStr("TOWER_BUILDING")
    THEN LET killer_team == KillerTeamWithFallback(e, p2t)
         IN [st EXCEPT !.first_tower_team = Latch(@, killer_team),
                       !.base = update_counts(@, killer_team, "towers15", 1)]
    ELSE st

\* Mutant of EliteMonsterKill: one marker guards both first objectives.
EliteMonsterKillSharedMarker(st, e, p2t) ==
    LET killer_team == KillerTeamWithFallback(e, p2t)
    IN IF e.monsterType = JStr("DRAGON")
       THEN [st EXCEPT !.first_drake_team = Latch(@, killer_team),
                       !.base = update_counts(@, killer_team, "drakes15", 1)]
       ELSE IF e.monsterType = JStr("RIFTHERALD")
       THEN [st EXCEPT !.first_herald_team =
                            IF st.first_drake_team = 0 THEN Latch(@, killer_team) ELSE @,
                       !.base = update_counts(@, killer_team, "herald15", 1)]
       ELSE st

EliteMonsterKill(st, e, p2t) ==
    LET killer_team == KillerTeamWithFallback(e, p2t)
    IN IF e.monsterType = JStr("DRAGON")
       THEN [st EXCEPT !.first_drake_team = Latch(@, killer_team),
                       !.base = update_counts(@, killer_team, "drakes15", 1)]
       ELSE IF e.monsterType = JStr("RIFTHERALD")
       THEN [st EXCEPT !.first_herald_team = Latch(@, killer_team),
                       !.base = update_counts(@, killer_team, "herald15", 1)]
       ELSE st

\* Mutant of compute_features_event: the `ts > CUT15` skip dropped.
compute_features_event_nocut(st, e, p2t) ==
    IF e.timestamp = None THEN st
    ELSE IF e.type = "CHAMPION_KILL" THEN ChampionKill(st, e, p2t)
    ELSE IF e.type = "TURRET_PLATE_DESTROYED" THEN TurretPlate(st, e, p2t)
    ELSE IF e.type = "BUILDING_KILL" THEN BuildingKill(st, e, p2t)
    ELSE IF e.type = "ELITE_MONSTER_KILL" THEN EliteMonsterKill(st, e, p2t)
    ELSE st

\* One iteration of `for ev in events` in compute_features.
compute_features_event(st, e, p2t) ==
    IF e.timestamp = None THEN st
    ELSE IF e.timestamp.n > CUT15 THEN st
    ELSE IF e.type = "CHAMPION_KILL" THEN ChampionKill(st, e, p2t)
    ELSE IF e.type = "TURRET_PLATE_DESTROYED" THEN TurretPlate(st, e, p2t)
    ELSE IF e.type = "BUILDING_KILL" THEN BuildingKill(st, e, p2t)
    ELSE IF e.type = "ELITE_MONSTER_KILL" THEN EliteMonsterKill(st, e, p2t)
    ELSE st

\* diff(field): team 100 minus team 200
diff(counts, field) == counts[100][field] - counts[200][field]

first_enc(team) == IF team = 100 THEN 1 ELSE IF team = 200 THEN -1 ELSE 0

(***************************************************************************)
(* count_wards: one iteration of its event loop.                           *)
(***************************************************************************)
WardFields == {"wp10", "wk10", "cwp10", "wp15", "wk15", "cwp15"}

ZeroWards == [t \in Teams |-> [f \in WardFields |-> 0]]

Bump(counts, tid, field) == [counts EXCEPT ![tid][field] = @ + 1]

\* Mutant of WardPlaced: the 10-minute horizon excludes its boundary.
WardPlacedStrict10(cw, e, p2t) ==
    LET tid == team_from_pid(e.creatorId, p2t)
        ts == e.timestamp.n
        isControl == e.wardType = JStr("CONTROL_WARD")
        c10 == IF ts < CUT10
               THEN LET w == Bump(cw, tid.n, "wp10")
                    IN IF isControl THEN Bump(w, tid.n, "cwp10") ELSE w
               ELSE cw
        c15 == Bump(c10, tid.n, "wp15")
    IN IF ~InTeams(tid) THEN cw
       ELSE IF isControl THEN Bump(c15, tid.n, "cwp15") ELSE c15

WardPlaced(cw, e, p2t) ==
    LET tid == team_from_pid(e.creatorId, p2t)
        ts == e.timestamp.n
        isControl == e.wardType = JStr("CONTROL_WARD")
        c10 == IF ts <= CUT10
               THEN LET w == Bump(cw, tid.n, "wp10")
                    IN IF isControl THEN Bump(w, tid.n, "cwp10") ELSE w
               ELSE cw
        c15 == Bump(c10, tid.n, "wp15")
    IN IF ~InTeams(tid) THEN cw
       ELSE IF isControl THEN Bump(c15, tid.n, "cwp15") ELSE c15

\* Mutant of WardKill: a kill within 10 minutes is counted there only.
WardKillEitherHorizon(cw, e, p2t) ==
    LET tid == team_from_pid(e.killerId, p2t)
    IN IF ~InTeams(tid) THEN cw
       ELSE IF e.timestamp.n <= CUT10 THEN Bump(cw, tid.n, "wk10")
       ELSE Bump(cw, tid.n, "wk15")

WardKill(cw, e, p2t) ==
    LET tid == team_from_pid(e.killerId, p2t)
        c10 == IF e.timestamp.n <= CUT10 THEN Bump(cw, tid.n, "wk10") ELSE cw
    IN IF ~InTeams(tid) THEN cw ELSE Bump(c10, tid.n, "wk15")

count_wards_event(cw, e, p2t) ==
    IF e.timestamp = None \/ (e.timestamp # None /\ e.timestamp.n > CUT15) THEN cw
    ELSE IF e.type = "WARD_PLACED" THEN WardPlaced(cw, e, p2t)
    ELSE IF e.type = "WARD_KILL" THEN WardKill(cw, e, p2t)
    ELSE cw

(***************************************************************************)
(* Python dicts keep insertion order: a dict is a sequence of key/value    *)
(* entries with distinct keys.                                             *)
(***************************************************************************)
DictKeys(d) == {d[i].key : i \in DOMAIN d}

DictHas(d, key) == key \in DictKeys(d)

\* d.get(key)
DictGet(d, key) ==
    IF DictHas(d, key) THEN d[CHOOSE i \in DOMAIN d : d[i].key = key].val ELSE None

\* d[key] = val
DictSet(d, key, val) ==
    IF DictHas(d, key)
    THEN [i \in DOMAIN d |-> IF d[i].key = key THEN [key |-> key, val |-> val] ELSE d[i]]
    ELSE Append(d, [key |-> key, val |-> val])

\* for k, v in src.items(): d[prefix + k] = v
RECURSIVE DictSetAll(_, _, _)
DictSetAll(d, prefix, src) ==
    IF src = <<>> THEN d
    ELSE DictSetAll(DictSet(d, prefix \o Head(src).key, Head(src).val), prefix, Tail(src))

(***************************************************************************)
(* build_dataset: timelines.  A frame holds participantFrames, a mapping   *)
(* from the participant id as a string to that participant's snapshot.     *)
(***************************************************************************)
SNAP_MINUTES == <<10, 15>>

\* str(pid)
StrOfPid(pid) ==
    IF pid.k = "int" THEN ToString(pid.n) ELSE IF pid.k = "str" THEN pid.s ELSE "None"

Snapshot(gold, xp, level, minions, jungle) ==
    [totalGold |-> gold, xp |-> xp, level |-> level,
     minionsKilled |-> minions, jungleMinionsKilled |-> jungle]

\* What a frame at index minute holds for participant i, by kind.
PFKinds == {"full", "absent", "nullGold", "nullMinions"}

ParticipantFrame(kind, i, minute) ==
    CASE kind = "full" ->
            Snapshot(JInt(100 * minute + i), JInt(10 * minute + i), JInt(i),
                     JInt(2 ^ i), JInt(i % 2))
      [] kind = "nullGold" ->
            Snapshot(None, JInt(10 * minute + i), JInt(i), JInt(2 ^ i), JInt(1))
      [] kind = "nullMinions" ->
            Snapshot(JInt(100 * minute + i), JInt(10 * minute + i), JInt(i),
                     None, JInt(3))

\* The kinds of a team's five slots within one frame.
TeamPattern(k1, k2, k3, k4, k5) == <<k1, k2, k3, k4, k5>>

TeamPatterns ==
    {TeamPattern("full", "full", "full", "full", "full"),
     TeamPattern("absent", "absent", "absent", "absent", "absent"),
     TeamPattern("absent", "full", "full", "full", "full"),
     TeamPattern("full", "nullGold", "full", "full", "full"),
     TeamPattern("full", "full", "nullMinions", "full", "absent"),
     TeamPattern("absent", "absent", "absent", "absent", "nullGold")}

\* Kind of participant i (1..10) under the patterns of teams 100 and 200.
KindOf(i, p100, p200) == IF i <= 5 THEN p100[i] ELSE p200[i - 5]

Frame(minute, p100, p200) ==
    [timestamp |-> JInt(minute * 60 * 1000),
     participantFrames |->
        [key \in {ToString(i) : i \in {j \in 1..10 : KindOf(j, p100, p200) # "absent"}} |->
            LET i == CHOOSE j \in 1..10 : ToString(j) = key
            IN ParticipantFrame(KindOf(i, p100, p200), i, minute)]]

AllFull == TeamPattern("full", "full", "full", "full", "full")

\* Frames holding all ten participants, by index.
FullFrames == [minute \in 0..MaxFrames |-> Frame(minute, AllFull, AllFull)]

PatternPairs == TeamPatterns \X TeamPatterns

\* The frames at the snapshot minutes, by the patterns of the two teams.
SnapFrames ==
    [m \in {SNAP_MINUTES[i] : i \in DOMAIN SNAP_MINUTES} |->
        [pp \in PatternPairs |-> Frame(m, pp[1], pp[2])]]

\* A timeline file with n one-minute frames; the frames at the snapshot
\* minutes follow the given patterns, every other frame holds all ten
\* participants.
Timeline(n, pa, pb) ==
    [exists |-> TRUE,
     frames |-> [idx \in 1..n |->
                    IF idx - 1 = SNAP_MINUTES[1] THEN SnapFrames[idx - 1][pa]
                    ELSE IF idx - 1 = SNAP_MINUTES[2] THEN SnapFrames[idx - 1][pb]
                    ELSE FullFrames[idx - 1]]]

\* No timeline file is paired with the match.
NoTimeline == [exists |-> FALSE, frames |-> <<>>]

FullPair == <<AllFull, AllFull>>

Timelines ==
    {Timeline(n, FullPair, FullPair) : n \in 0..SNAP_MINUTES[1]}
    \cup {Timeline(n, pa, FullPair) :
            n \in (SNAP_MINUTES[1] + 1)..SNAP_MINUTES[2], pa \in PatternPairs}
    \cup {Timeline(n, pa, pb) :
            n \in (SNAP_MINUTES[2] + 1)..MaxFrames, pa \in PatternPairs, pb \in PatternPairs}

\* A record with nine participants.
ShortMatch == SubSeq(FullMatch, 1, 9)

\* The (match record, timeline file) pairs main is run on.
BuildInputs ==
    ({FullMatch} \X (Timelines \cup {NoTimeline}))
    \cup ({ShortMatch} \X {Timeline(MaxFrames, FullPair, FullPair), NoTimeline})

(***************************************************************************)
(* build_dataset: get_frame and extract_team_snapshot.                     *)
(***************************************************************************)
get_frame(frames, minute) ==
    IF frames = <<>> THEN None
    ELSE IF minute < 0 \/ minute >= Len(frames) THEN None
    ELSE frames[minute + 1]

\* x or 0
OrZero(v) == IF v = None THEN 0 ELSE v.n

ZeroTotals == [gold |-> 0, xp |-> 0, cs |-> 0, lvl |-> 0, ok |-> 0]

\* Mutant of SumTeam: creep score counts lane minions only.
RECURSIVE SumTeamLaneOnly(_, _, _)
SumTeamLaneOnly(pf, ids, acc) ==
    IF ids = <<>> THEN acc
    ELSE LET key == StrOfPid(Head(ids))
         IN IF key \notin DOMAIN pf THEN SumTeamLaneOnly(pf, Tail(ids), acc)
            ELSE LET x == pf[key]
                 IN IF x.totalGold = None \/ x.xp = None \/ x.level = None
                    THEN SumTeamLaneOnly(pf, Tail(ids), acc)
                    ELSE SumTeamLaneOnly(pf, Tail(ids),
                                 [gold |-> acc.gold + x.totalGold.n,
                                  xp |-> acc.xp + x.xp.n,
                                  cs |-> acc.cs + OrZero(x.minionsKilled),
                                  lvl |-> acc.lvl + x.level.n,
                                  ok |-> acc.ok + 1])

\* The loop `for pid in team_participant_ids` of extract_team_snapshot.
RECURSIVE SumTeam(_, _, _)
SumTeam(pf, ids, acc) ==
    IF ids = <<>> THEN acc
    ELSE LET key == StrOfPid(Head(ids))
         IN IF key \notin DOMAIN pf THEN SumTeam(pf, Tail(ids), acc)
            ELSE LET x == pf[key]
                     cs == OrZero(x.minionsKilled) + OrZero(x.jungleMinionsKilled)
                 IN IF x.totalGold = None \/ x.xp = None \/ x.level = None
                    THEN SumTeam(pf, Tail(ids), acc)
                    ELSE SumTeam(pf, Tail(ids),
                                 [gold |-> acc.gold + x.totalGold.n,
                                  xp |-> acc.xp + x.xp.n,
                                  cs |-> acc.cs + cs,
                                  lvl |-> acc.lvl + x.level.n,
                                  ok |-> acc.ok + 1])

\* f"team_m{minute}_<field>"
TeamCol(minute, field) == "team_m" \o ToString(minute) \o "_" \o field

Entry(key, val) == [key |-> key, val |-> val]

SnapshotRow(minute, t) ==
    <<Entry(TeamCol(minute, "totalGold"), JInt(t.gold)),
      Entry(TeamCol(minute, "xp"), JInt(t.xp)),
      Entry(TeamCol(minute, "cs"), JInt(t.cs)),
      Entry(TeamCol(minute, "levelSum"), JInt(t.lvl)),
      Entry(TeamCol(minute, "participants_ok"), JInt(t.ok))>>

\* Mutant of extract_team_snapshot: a missing frame gives a zero-filled row.
extract_team_snapshot_zero_filled(frames, minute, team_participant_ids) ==
    LET frame == get_frame(frames, minute)
    IN IF frame = None THEN SnapshotRow(minute, ZeroTotals)
       ELSE LET t == SumTeam(frame.participantFrames, team_participant_ids, ZeroTotals)
            IN IF t.ok = 0 THEN <<>> ELSE SnapshotRow(minute, t)

\* Mutant of extract_team_snapshot: a snapshot needs every member aggregated.
extract_team_snapshot_all_members(frames, minute, team_participant_ids) ==
    LET frame == get_frame(frames, minute)
    IN IF frame = None THEN <<>>
       ELSE LET t == SumTeam(frame.participantFrames, team_participant_ids, ZeroTotals)
            IN IF t.ok < Len(team_participant_ids) THEN <<>> ELSE SnapshotRow(minute, t)

extract_team_snapshot(frames, minute, team_participant_ids) ==
    LET frame == get_frame(frames, minute)
    IN IF frame = None THEN <<>>
       ELSE LET t == SumTeam(frame.participantFrames, team_participant_ids, ZeroTotals)
            IN IF t.ok = 0 THEN <<>> ELSE SnapshotRow(minute, t)

(***************************************************************************)
(* build_dataset.main: the body of the loop over match files.              *)
(***************************************************************************)
\* [p.get("participantId") for p in participants if p.get("teamId") == tid]
TeamIds(parts, tid) ==
    LET RECURSIVE Pick(_)
        Pick(ps) == IF ps = <<>> THEN <<>>
                    ELSE IF Head(ps).teamId = JInt(tid)
                         THEN <<Head(ps).participantId>> \o Pick(Tail(ps))
                         ELSE Pick(Tail(ps))
    IN Pick(parts)

\* The match-level columns every row starts from.
BaseMatch ==
    <<Entry("matchId", JStr("EUW1_1")), Entry("gameCreation", JInt(1)),
      Entry("gameDuration", JInt(1800)), Entry("gameVersion", JStr("14.1")),
      Entry("queueId", JInt(420)), Entry("mapId", JInt(11)),
      Entry("platformId", JStr("EUW1"))>>

\* f"delta_m{m}_<what>_100_minus_200"
DeltaCol(m, what) == "delta_m" \o ToString(m) \o "_" \o what \o "_100_minus_200"

\* Mutant of WithDelta: a missing total is taken as 0.
WithDeltaImputed(row, m, what, v100, v200) ==
    DictSet(row, DeltaCol(m, what), JInt(OrZero(v100) - OrZero(v200)))

\* "delta jen pokud mame obe strany": set only when both totals exist.
WithDelta(row, m, what, v100, v200) ==
    IF v100 # None /\ v200 # None
    THEN DictSet(row, DeltaCol(m, what), JInt(v100.n - v200.n))
    ELSE row

\* One iteration of `for m in SNAP_MINUTES`.
SnapMinute(row, frames, parts, m) ==
    LET s100 == extract_team_snapshot(frames, m, TeamIds(parts, 100))
        s200 == extract_team_snapshot(frames, m, TeamIds(parts, 200))
        r1 == DictSetAll(DictSetAll(row, "t100_", s100), "t200_", s200)
        r2 == WithDelta(r1, m, "gold", DictGet(s100, TeamCol(m, "totalGold")),
                        DictGet(s200, TeamCol(m, "totalGold")))
    IN WithDelta(r2, m, "xp", DictGet(s100, TeamCol(m, "xp")),
                 DictGet(s200, TeamCol(m, "xp")))

BuildInit ==
    /\ \E input \in BuildInputs :
            /\ participants = input[1]
            /\ tl = input[2]
    /\ bpc = "load"
    /\ mi = 1
    /\ team_base = <<>>
    /\ team_rows = <<>>
    \* no event scan is running
    /\ scan = "idle"
    /\ pid2team = get_participant_team_map(FullMatch)
    /\ base = ZeroBase
    /\ first_blood_team = 0
    /\ first_drake_team = 0
    /\ first_tower_team = 0
    /\ first_herald_team = 0
    /\ c = ZeroWards
    /\ ev = NoEvent
    /\ nev = 0
    \* no augment script is running
    /\ matchFiles = {}
    /\ tlFiles = {}
    /\ out = [f \in OutFiles |-> NoTable]
    /\ stage = 0
    /\ err = NoErrors
    /\ run = 0
    /\ shortIds = {}
    /\ firstOut = [f \in OutFiles |-> NoTable]
    \* no row function is being called
    /\ infoFrames = <<>>
    /\ call = "idle"
    /\ cutoff = 0
    /\ picked = None
    /\ mrow = <<>>
    /\ reordered = <<>>
    /\ feats = <<>>
    /\ featsReordered = <<>>

\* Load the match and its timeline; skip the match without a timeline file
\* or without exactly 10 participants.
BuildLoadMatch ==
    /\ bpc = "load"
    /\ IF ~tl.exists \/ Len(participants) # 10
       THEN /\ bpc' = "skipped"
            /\ UNCHANGED team_base
       ELSE /\ bpc' = "minutes"
            /\ team_base' = BaseMatch
    /\ UNCHANGED <<participants, tl, mi, team_rows, scanVars, mergeVars, rowVars>>

BuildSnapMinute ==
    /\ bpc = "minutes"
    /\ mi <= Len(SNAP_MINUTES)
    /\ team_base' = SnapMinute(team_base, tl.frames, participants, SNAP_MINUTES[mi])
    /\ mi' = mi + 1
    /\ UNCHANGED <<participants, tl, bpc, team_rows, scanVars, mergeVars, rowVars>>

\* Win labels from info.teams, then team_rows.append(team_base).
BuildAppendRow ==
    /\ bpc = "minutes"
    /\ mi > Len(SNAP_MINUTES)
    /\ LET row == DictSet(DictSet(team_base, "team100_win", JInt(1)),
                          "team200_win", JInt(0))
       IN /\ team_base' = row
          /\ team_rows' = Append(team_rows, row)
    /\ bpc' = "appended"
    /\ UNCHANGED <<participants, tl, mi, scanVars, mergeVars, rowVars>>

BuildNext == BuildLoadMatch \/ BuildSnapMinute \/ BuildAppendRow

(***************************************************************************)
(* Tables (pandas DataFrames, CSV files): ordered column names and rows    *)
(* mapping each column to a value; None is a missing value (NaN).          *)
(***************************************************************************)
SeqSet(q) == {q[i] : i \in DOMAIN q}

\* c.lower() for the column names of the model that hold an upper-case
\* letter and bear on the search for the identifier column; any other name
\* is returned as it is, none of them lower-casing to match_id or matchid.
LowerRole(r) ==
    CASE r = "TOP" -> "top" [] r = "JUNGLE" -> "jungle" [] r = "MIDDLE" -> "middle"
      [] r = "BOTTOM" -> "bottom" [] r = "UTILITY" -> "utility"

ChampCol(tid, r) == "t" \o ToString(tid) \o "_" \o r \o "_champ"

LowerTable ==
    [col \in {"matchId", "MatchID", "diff_wardsPlaced10", "diff_wardsKilled10",
              "diff_ctrlWardsPlaced10", "diff_wardsPlaced15", "diff_wardsKilled15",
              "diff_ctrlWardsPlaced15"}
             \cup {ChampCol(t, ROLES[i]) : t \in Teams, i \in DOMAIN ROLES} |->
        CASE col = "matchId" -> "matchid"
          [] col = "MatchID" -> "matchid"
          [] col = "diff_wardsPlaced10" -> "diff_wardsplaced10"
          [] col = "diff_wardsKilled10" -> "diff_wardskilled10"
          [] col = "diff_ctrlWardsPlaced10" -> "diff_ctrlwardsplaced10"
          [] col = "diff_wardsPlaced15" -> "diff_wardsplaced15"
          [] col = "diff_wardsKilled15" -> "diff_wardskilled15"
          [] col = "diff_ctrlWardsPlaced15" -> "diff_ctrlwardsplaced15"
          [] OTHER -> LET tr == CHOOSE x \in Teams \X DOMAIN ROLES :
                                    ChampCol(x[1], ROLES[x[2]]) = col
                      IN "t" \o ToString(tr[1]) \o "_" \o LowerRole(ROLES[tr[2]]) \o "_champ"]

Lower(col) == IF col \in DOMAIN LowerTable THEN LowerTable[col] ELSE col

\* Mutant of KeyCol: the loop lacks its break and keeps the last match.
KeyColLast(cols) ==
    LET hits == {i \in DOMAIN cols : Lower(cols[i]) \in {"match_id", "matchid"}}
    IN IF hits = {} THEN ""
       ELSE cols[CHOOSE i \in hits : \A j \in hits : i >= j]

\* The first column whose lower-cased name is match_id or matchid; "" when
\* there is none (key_col is None).
KeyCol(cols) ==
    LET hits == {i \in DOMAIN cols : Lower(cols[i]) \in {"match_id", "matchid"}}
    IN IF hits = {} THEN ""
       ELSE cols[CHOOSE i \in hits : \A j \in hits : i <= j]

RECURSIVE Flatten(_)
Flatten(qs) == IF qs = <<>> THEN <<>> ELSE Head(qs) \o Flatten(Tail(qs))

\* pd.DataFrame(rows): the columns are the keys in order of first appearance;
\* a key a row lacks is missing in it.
DataFrame(dicts) ==
    LET keys == Flatten([i \in DOMAIN dicts |->
                            [j \in DOMAIN dicts[i] |-> dicts[i][j].key]])
        firsts == {k \in DOMAIN keys : \A l \in 1..(k - 1) : keys[l] # keys[k]}
        cols == [n \in 1..Cardinality(firsts) |->
                    keys[CHOOSE k \in firsts :
                            Cardinality({l \in firsts : l <= k}) = n]]
    IN Table(cols, [i \in DOMAIN dicts |-> [col \in SeqSet(cols) |-> DictGet(dicts[i], col)]])

\* Mutant of LeftMerge: an inner join, dropping base rows without a match.
InnerMerge(left, right, left_on, right_on) ==
    LET sameKey == left_on = right_on
        rkept == SelectSeq(right.cols, LAMBDA col : ~(sameKey /\ col = right_on))
        overlap == SeqSet(left.cols) \cap SeqSet(rkept)
        LName(col) == IF col \in overlap THEN col \o "_x" ELSE col
        RName(col) == IF col \in overlap THEN col \o "_y" ELSE col
        cols == [i \in DOMAIN left.cols |-> LName(left.cols[i])]
                    \o [i \in DOMAIN rkept |-> RName(rkept[i])]
        Joined(lr, rr) ==
            [col \in SeqSet(cols) |->
                IF \E lc \in SeqSet(left.cols) : LName(lc) = col
                THEN lr[CHOOSE lc \in SeqSet(left.cols) : LName(lc) = col]
                ELSE rr[CHOOSE rc \in SeqSet(rkept) : RName(rc) = col]]
        Matches(lr) == SelectSeq(right.rows, LAMBDA rr : rr[right_on] = lr[left_on])
        RowsFor(lr) == [j \in DOMAIN Matches(lr) |-> Joined(lr, Matches(lr)[j])]
    IN Table(cols, Flatten([i \in DOMAIN left.rows |-> RowsFor(left.rows[i])]))

\* Mutant of LeftMerge: a base row without a match gets zeros, not missing values.
LeftMergeZeroFilled(left, right, left_on, right_on) ==
    LET sameKey == left_on = right_on
        rkept == SelectSeq(right.cols, LAMBDA col : ~(sameKey /\ col = right_on))
        overlap == SeqSet(left.cols) \cap SeqSet(rkept)
        LName(col) == IF col \in overlap THEN col \o "_x" ELSE col
        RName(col) == IF col \in overlap THEN col \o "_y" ELSE col
        cols == [i \in DOMAIN left.cols |-> LName(left.cols[i])]
                    \o [i \in DOMAIN rkept |-> RName(rkept[i])]
        missing == [col \in SeqSet(rkept) |-> JInt(0)]
        Joined(lr, rr) ==
            [col \in SeqSet(cols) |->
                IF \E lc \in SeqSet(left.cols) : LName(lc) = col
                THEN lr[CHOOSE lc \in SeqSet(left.cols) : LName(lc) = col]
                ELSE rr[CHOOSE rc \in SeqSet(rkept) : RName(rc) = col]]
        Matches(lr) == SelectSeq(right.rows, LAMBDA rr : rr[right_on] = lr[left_on])
        RowsFor(lr) ==
            IF Matches(lr) = <<>> THEN <<Joined(lr, missing)>>
            ELSE [j \in DOMAIN Matches(lr) |-> Joined(lr, Matches(lr)[j])]
    IN Table(cols, Flatten([i \in DOMAIN left.rows |-> RowsFor(left.rows[i])]))

\* left.merge(right, left_on=left_on, right_on=right_on, how="left"): every
\* left row in order, joined with each right row of equal key in the right
\* table's order, or with missing values when there is none.  A right key
\* column named like the left key is dropped; other names the two tables
\* share get the suffixes _x and _y.
LeftMerge(left, right, left_on, right_on) ==
    LET sameKey == left_on = right_on
        rkept == SelectSeq(right.cols, LAMBDA col : ~(sameKey /\ col = right_on))
        overlap == SeqSet(left.cols) \cap SeqSet(rkept)
        LName(col) == IF col \in overlap THEN col \o "_x" ELSE col
        RName(col) == IF col \in overlap THEN col \o "_y" ELSE col
        cols == [i \in DOMAIN left.cols |-> LName(left.cols[i])]
                    \o [i \in DOMAIN rkept |-> RName(rkept[i])]
        missing == [col \in SeqSet(rkept) |-> None]
        Joined(lr, rr) ==
            [col \in SeqSet(cols) |->
                IF \E lc \in SeqSet(left.cols) : LName(lc) = col
                THEN lr[CHOOSE lc \in SeqSet(left.cols) : LName(lc) = col]
                ELSE rr[CHOOSE rc \in SeqSet(rkept) : RName(rc) = col]]
        Matches(lr) == SelectSeq(right.rows, LAMBDA rr : rr[right_on] = lr[left_on])
        RowsFor(lr) ==
            IF Matches(lr) = <<>> THEN <<Joined(lr, missing)>>
            ELSE [j \in DOMAIN Matches(lr) |-> Joined(lr, Matches(lr)[j])]
    IN Table(cols, Flatten([i \in DOMAIN left.rows |-> RowsFor(left.rows[i])]))

(***************************************************************************)
(* The feature rows of the three augment stages.                           *)
(***************************************************************************)
\* for fr in frames: for ev in fr.get("events", [])
FrameEvents(frames) == Flatten([i \in DOMAIN frames |-> frames[i].events])

\* Mutant of ScanAll: the scan stops at the first event after 15 minutes.
RECURSIVE ScanAllStopAtLate(_, _, _)
ScanAllStopAtLate(st, events, p2t) ==
    IF events = <<>> THEN st
    ELSE IF Head(events).timestamp # None /\ Head(events).timestamp.n > CUT15 THEN st
    ELSE ScanAllStopAtLate(compute_features_event(st, Head(events), p2t), Tail(events), p2t)

RECURSIVE ScanAll(_, _, _)
ScanAll(st, events, p2t) ==
    IF events = <<>> THEN st
    ELSE ScanAll(compute_features_event(st, Head(events), p2t), Tail(events), p2t)

\* augment_objectives.compute_features: the row of one match.
compute_features(match_id, parts, frames) ==
    LET p2t == get_participant_team_map(parts)
        st == ScanAll(ObjState(ZeroBase, 0, 0, 0, 0), FrameEvents(frames), p2t)
        D(f) == JInt(diff(st.base, f))
    IN <<Entry("match_id", JStr(match_id)),
         Entry("diff_k10", D("k10")), Entry("diff_d10", D("d10")),
         Entry("diff_a10", D("a10")), Entry("diff_k15", D("k15")),
         Entry("diff_d15", D("d15")), Entry("diff_a15", D("a15")),
         Entry("diff_plates14", D("plates14")), Entry("diff_towers15", D("towers15")),
         Entry("diff_drakes15", D("drakes15")), Entry("diff_herald15", D("herald15")),
         Entry("first_blood", JInt(first_enc(st.first_blood_team))),
         Entry("first_drake", JInt(first_enc(st.first_drake_team))),
         Entry("first_tower", JInt(first_enc(st.first_tower_team))),
         Entry("first_herald", JInt(first_enc(st.first_herald_team)))>>

CUT8 == 8 * 60 * 1000
CUT12 == 12 * 60 * 1000

\* Mutant of pick_frame: the loop runs on past a frame after the cutoff.
pick_frame_no_break(frames, cut_ms) ==
    LET RECURSIVE Loop(_, _)
        Loop(i, best) ==
            IF i > Len(frames) THEN best
            ELSE IF frames[i].timestamp = None THEN Loop(i + 1, best)
            ELSE IF frames[i].timestamp.n <= cut_ms THEN Loop(i + 1, i)
            ELSE Loop(i + 1, best)
        best == Loop(1, 0)
    IN IF best # 0 THEN frames[best]
       ELSE IF frames # <<>> THEN frames[1] ELSE None

\* augment_more.pick_frame: the last frame with timestamp <= cut before the
\* first later one; the first frame when there is none; None without frames.
pick_frame(frames, cut_ms) ==
    LET RECURSIVE Loop(_, _)
        Loop(i, best) ==
            IF i > Len(frames) THEN best
            ELSE IF frames[i].timestamp = None THEN Loop(i + 1, best)
            ELSE IF frames[i].timestamp.n <= cut_ms THEN Loop(i + 1, i)
            ELSE best
        best == Loop(1, 0)
    IN IF best # 0 THEN frames[best]
       ELSE IF frames # <<>> THEN frames[1] ELSE None

EconFields == {"gold", "xp", "cs", "lvl"}

\* augment_more.sum_team_from_frame
sum_team_from_frame(frame, p2t) ==
    LET pf == IF frame # None THEN frame.participantFrames ELSE <<>>
        RECURSIVE Loop(_, _)
        Loop(keys, totals) ==
            IF keys = {} THEN totals
            ELSE LET pid_str == CHOOSE key \in keys : TRUE
                     rest == keys \ {pid_str}
                     tid == IF pid_str \in DecimalStrings
                            THEN team_from_pid(JInt(DecimalValue(pid_str)), p2t)
                            ELSE None
                     obj == pf[pid_str]
                 IN IF ~InTeams(tid) THEN Loop(rest, totals)
                    ELSE Loop(rest,
                              [totals EXCEPT
                                 ![tid.n]["gold"] = @ + OrZero(obj.totalGold),
                                 ![tid.n]["xp"] = @ + OrZero(obj.xp),
                                 ![tid.n]["cs"] = @ + OrZero(obj.minionsKilled)
                                                    + OrZero(obj.jungleMinionsKilled),
                                 ![tid.n]["lvl"] = @ + OrZero(obj.level)])
    IN Loop(DOMAIN pf, [t \in Teams |-> [f \in EconFields |-> 0]])

RECURSIVE WardsAll(_, _, _)
WardsAll(cw, events, p2t) ==
    IF events = <<>> THEN cw
    ELSE WardsAll(count_wards_event(cw, Head(events), p2t), Tail(events), p2t)

\* count_wards' return value: the six differences, team 100 minus team 200.
ward_diffs(cw) ==
    LET D(f) == JInt(diff(cw, f))
    IN <<Entry("diff_wardsPlaced10", D("wp10")), Entry("diff_wardsKilled10", D("wk10")),
         Entry("diff_ctrlWardsPlaced10", D("cwp10")), Entry("diff_wardsPlaced15", D("wp15")),
         Entry("diff_wardsKilled15", D("wk15")), Entry("diff_ctrlWardsPlaced15", D("cwp15"))>>

\* augment_more.count_wards: the six ward differences of one match.
count_wards(frames, p2t) == ward_diffs(WardsAll(ZeroWards, FrameEvents(frames), p2t))

\* Mutant of more_row: without a selected frame the deltas are left missing.
more_row_missing_without_frame(match_id, parts, frames) ==
    LET p2t == get_pid2team(parts)
        fr8 == pick_frame(frames, CUT8)
        fr12 == pick_frame(frames, CUT12)
        t8 == sum_team_from_frame(fr8, p2t)
        t12 == sum_team_from_frame(fr12, p2t)
        D(fr, tot, f) == IF fr = None THEN None ELSE JInt(tot[100][f] - tot[200][f])
    IN <<Entry("match_id", JStr(match_id)),
         Entry("delta_m8_gold_100_minus_200", D(fr8, t8, "gold")),
         Entry("delta_m8_xp_100_minus_200", D(fr8, t8, "xp")),
         Entry("delta_m8_cs_100_minus_200", D(fr8, t8, "cs")),
         Entry("delta_m8_lvl_100_minus_200", D(fr8, t8, "lvl")),
         Entry("delta_m12_gold_100_minus_200", D(fr12, t12, "gold")),
         Entry("delta_m12_xp_100_minus_200", D(fr12, t12, "xp")),
         Entry("delta_m12_cs_100_minus_200", D(fr12, t12, "cs")),
         Entry("delta_m12_lvl_100_minus_200", D(fr12, t12, "lvl"))>>
       \o count_wards(frames, p2t)

\* augment_more.main: the row of one match.
more_row(match_id, parts, frames) ==
    LET p2t == get_pid2team(parts)
        t8 == sum_team_from_frame(pick_frame(frames, CUT8), p2t)
        t12 == sum_team_from_frame(pick_frame(frames, CUT12), p2t)
        D(tot, f) == JInt(tot[100][f] - tot[200][f])
    IN <<Entry("match_id", JStr(match_id)),
         Entry("delta_m8_gold_100_minus_200", D(t8, "gold")),
         Entry("delta_m8_xp_100_minus_200", D(t8, "xp")),
         Entry("delta_m8_cs_100_minus_200", D(t8, "cs")),
         Entry("delta_m8_lvl_100_minus_200", D(t8, "lvl")),
         Entry("delta_m12_gold_100_minus_200", D(t12, "gold")),
         Entry("delta_m12_xp_100_minus_200", D(t12, "xp")),
         Entry("delta_m12_cs_100_minus_200", D(t12, "cs")),
         Entry("delta_m12_lvl_100_minus_200", D(t12, "lvl"))>>
       \o count_wards(frames, p2t)

\* Mutant of champ_roles_row: a later participant overwrites the slot.
champ_roles_row_last_wins(match_id, parts) ==
    LET init == <<Entry("match_id", JStr(match_id))>>
                  \o [i \in 1..(2 * Len(ROLES)) |->
                        Entry(ChampCol(IF i <= Len(ROLES) THEN 100 ELSE 200,
                                       ROLES[((i - 1) % Len(ROLES)) + 1]), None)]
        RECURSIVE Loop(_, _)
        Loop(ps, row) ==
            IF ps = <<>> THEN row
            ELSE LET q == Head(ps)
                     fits == /\ InTeams(q.teamId)
                             /\ q.teamPosition \in {JStr(ROLES[i]) : i \in DOMAIN ROLES}
                             /\ q.championId # None
                     key == ChampCol(q.teamId.n, q.teamPosition.s)
                 IN IF fits
                    THEN Loop(Tail(ps), DictSet(row, key, JInt(IntOf(q.championId))))
                    ELSE Loop(Tail(ps), row)
    IN Loop(parts, init)

\* augment_champ_roles.main: the row of one match, each (team, role) slot
\* set by the first participant that fills it.
champ_roles_row(match_id, parts) ==
    LET init == <<Entry("match_id", JStr(match_id))>>
                  \o [i \in 1..(2 * Len(ROLES)) |->
                        Entry(ChampCol(IF i <= Len(ROLES) THEN 100 ELSE 200,
                                       ROLES[((i - 1) % Len(ROLES)) + 1]), None)]
        RECURSIVE Loop(_, _)
        Loop(ps, row) ==
            IF ps = <<>> THEN row
            ELSE LET q == Head(ps)
                     fits == /\ InTeams(q.teamId)
                             /\ q.teamPosition \in {JStr(ROLES[i]) : i \in DOMAIN ROLES}
                             /\ q.championId # None
                     key == ChampCol(q.teamId.n, q.teamPosition.s)
                 IN IF fits /\ DictGet(row, key) = None
                    THEN Loop(Tail(ps), DictSet(row, key, JInt(IntOf(q.championId))))
                    ELSE Loop(Tail(ps), row)
    IN Loop(parts, init)

(***************************************************************************)
(* The scans as a state machine: the timeline's events arrive one by one   *)
(* in frame order; each step is one iteration of the running loop.         *)
(***************************************************************************)
ScanInit ==
    /\ scan \in {"compute_features", "count_wards"}
    /\ pid2team \in {get_participant_team_map(m) : m \in ScanMatches}
    /\ base = ZeroBase
    /\ first_blood_team = 0
    /\ first_drake_team = 0
    /\ first_tower_team = 0
    /\ first_herald_team = 0
    /\ c = ZeroWards
    /\ ev = NoEvent
    /\ nev = 0
    \* build_dataset is not running
    /\ participants = FullMatch
    /\ tl = NoTimeline
    /\ bpc = "idle"
    /\ mi = 1
    /\ team_base = <<>>
    /\ team_rows = <<>>
    \* no augment script is running
    /\ matchFiles = {}
    /\ tlFiles = {}
    /\ out = [f \in OutFiles |-> NoTable]
    /\ stage = 0
    /\ err = NoErrors
    /\ run = 0
    /\ shortIds = {}
    /\ firstOut = [f \in OutFiles |-> NoTable]
    \* no row function is being called
    /\ infoFrames = <<>>
    /\ call = "idle"
    /\ cutoff = 0
    /\ picked = None
    /\ mrow = <<>>
    /\ reordered = <<>>
    /\ feats = <<>>
    /\ featsReordered = <<>>

ComputeFeaturesEvent(e) ==
    /\ scan = "compute_features"
    /\ nev < MaxEvents
    /\ LET st == compute_features_event(
                    ObjState(base, first_blood_team, first_drake_team,
                             first_tower_team, first_herald_team), e, pid2team)
       IN /\ base' = st.base
          /\ first_blood_team' = st.first_blood_team
          /\ first_drake_team' = st.first_drake_team
          /\ first_tower_team' = st.first_tower_team
          /\ first_herald_team' = st.first_herald_team
    /\ ev' = e
    /\ nev' = nev + 1
    /\ UNCHANGED <<scan, pid2team, c, buildVars, mergeVars, rowVars>>

CountWardsEvent(e) ==
    /\ scan = "count_wards"
    /\ nev < MaxEvents
    /\ c' = count_wards_event(c, e, pid2team)
    /\ ev' = e
    /\ nev' = nev + 1
    /\ UNCHANGED <<scan, pid2team, base, first_blood_team, first_drake_team,
                   first_tower_team, first_herald_team, buildVars, mergeVars, rowVars>>

ScanNext ==
    \/ \E e \in Events : ComputeFeaturesEvent(e)
    \/ \E e \in Events : CountWardsEvent(e)


(***************************************************************************)
(* Properties of the event scans.                                          *)
(***************************************************************************)
HasTime(e) == e.timestamp # None
AtOrBefore(e, cut) == HasTime(e) /\ e.timestamp.n <= cut
After(e, cut) == HasTime(e) /\ e.timestamp.n > cut

\* 1 when reference `pid` resolves to team t, else 0.
Credit(pid, t) == IF team_from_pid(pid, pid2team) = JInt(t) THEN 1 ELSE 0

\* Number of assisting participants of e that resolve to team t.
AssistCredit(e, t) ==
    Cardinality({i \in DOMAIN AssistsOf(e) :
                    team_from_pid(AssistsOf(e)[i], pid2team) = JInt(t)})

\* C1: an event with timestamp > 15 minutes, of any type and with any fields,
\* changes no per-team counter of compute_features (base) and none of
\* count_wards (c).
C1_LateEventChangesNoCounter ==
    [][After(ev', CUT15) => (base' = base /\ c' = c)]_vars

\* C1 witness: a champion kill after 15 minutes has been scanned on top of a
\* counted kill.
C1_Witness ==
    /\ scan = "compute_features"
    /\ ev.type = "CHAMPION_KILL" /\ After(ev, CUT15)
    /\ ev.killerId = JInt(6)
    /\ base[100]["k15"] = 1

\* C2: each first-occurrence marker is write-once during a scan: once it
\* encodes team 100 or 200 (1 or -1), no later event changes it.
C2_MarkersWriteOnce ==
    [][/\ first_enc(first_blood_team) # 0 => first_blood_team' = first_blood_team
       /\ first_enc(first_drake_team) # 0 => first_drake_team' = first_drake_team
       /\ first_enc(first_tower_team) # 0 => first_tower_team' = first_tower_team
       /\ first_enc(first_herald_team) # 0 => first_herald_team' = first_herald_team]_vars

\* C2 witness: first blood is latched to team 100 and a counted kill by a
\* team-200 killer has been scanned since.
C2_Witness ==
    /\ first_blood_team = 100
    /\ ev.type = "CHAMPION_KILL" /\ AtOrBefore(ev, CUT15)
    /\ ev.killerId = JInt(6)
    /\ base[200]["k15"] = 1

\* The kill/death/assist increments C3 states for one champion kill.
KdaStep(e, t, k, d, a) ==
    /\ base'[t][k] = base[t][k] + Credit(e.killerId, t)
    /\ base'[t][d] = base[t][d] + Credit(e.victimId, t)
    /\ base'[t][a] = base[t][a] + AssistCredit(e, t)

KdaSame(t, k, d, a) ==
    /\ base'[t][k] = base[t][k]
    /\ base'[t][d] = base[t][d]
    /\ base'[t][a] = base[t][a]

\* The spec's example: one kill at 5 minutes, killer on 100, victim on 200.
KillAt5 == Event("CHAMPION_KILL", JInt(Min5), JInt(1), JInt(6), None,
                 None, None, None, None, None)

\* C3: a CHAMPION_KILL at or before 15 minutes adds one kill to the killer's
\* team, one death to the victim's team and one assist per assisting
\* participant to that participant's team in the 15-minute counters, and the
\* same in the 10-minute counters iff its timestamp is at or before 10
\* minutes; a single kill at 5 minutes by team 100 on team 200 gives
\* diff_k15 = 1, diff_d15 = -1, diff_k10 = 1, diff_d10 = -1, first_blood = 1.
C3_ChampionKillCounts ==
    [][(scan = "compute_features" /\ ev'.type = "CHAMPION_KILL"
          /\ AtOrBefore(ev', CUT15))
       => /\ \A t \in Teams :
                /\ KdaStep(ev', t, "k15", "d15", "a15")
                /\ IF AtOrBefore(ev', CUT10)
                   THEN KdaStep(ev', t, "k10", "d10", "a10")
                   ELSE KdaSame(t, "k10", "d10", "a10")
          /\ (nev = 0 /\ ev' = KillAt5)
                => /\ diff(base', "k15") = 1 /\ diff(base', "d15") = -1
                   /\ diff(base', "k10") = 1 /\ diff(base', "d10") = -1
                   /\ first_enc(first_blood_team') = 1]_vars

\* C3 witness: the example kill was the only event scanned.
C3_Witness ==
    /\ scan = "compute_features" /\ nev = 1 /\ ev = KillAt5
    /\ diff(base, "k15") = 1 /\ diff(base, "k10") = 1

\* C4: a TURRET_PLATE_DESTROYED event increments the destroyer team's
\* plates14 iff its timestamp is at most 14 minutes and the killer resolves
\* to team 100 or 200; a plate at 14:00:01 leaves the counters unchanged.
C4_PlatesUpTo14 ==
    [][(scan = "compute_features" /\ ev'.type = "TURRET_PLATE_DESTROYED"
          /\ HasTime(ev'))
       => \A t \in Teams :
            base'[t]["plates14"] = base[t]["plates14"]
                + (IF AtOrBefore(ev', CUT14) THEN Credit(ev'.killerId, t) ELSE 0)]_vars

\* C4 witness: a plate at 14:00:01 by team 100 was scanned after a counted
\* plate of team 100.
C4_Witness ==
    /\ ev.type = "TURRET_PLATE_DESTROYED"
    /\ ev.timestamp = JInt(CUT14 + 1000) /\ ev.killerId = JInt(1)
    /\ base[100]["plates14"] = 1

\* The team (100 or 200) a participant reference stands for, 0 when the
\* reference is null, not an integer, or not in the participant map.
TeamOfRef(pid) ==
    IF pid = None THEN 0
    ELSE IF ~(pid.k = "int" \/ (pid.k = "str" /\ pid.s \in DecimalStrings)) THEN 0
    ELSE LET n == IF pid.k = "int" THEN pid.n ELSE DecimalValue(pid.s)
         IN IF n \in DOMAIN pid2team /\ pid2team[n] \in Teams THEN pid2team[n] ELSE 0

Enc(team) == IF team = 100 THEN 1 ELSE IF team = 200 THEN 0 - 1 ELSE 0

Counted(e, type) ==
    scan = "compute_features" /\ e.type = type /\ AtOrBefore(e, CUT15)

\* C16: first_blood starts at 0 and, while 0, takes 1 or -1 from the next
\* CHAMPION_KILL at or before 15 minutes whose killer resolves to team 100 or
\* 200; a kill whose killer does not resolve, and every other event, leaves
\* it 0; once set it stays.  So it encodes the first such kill in scan order.
C16_FirstBloodIsFirstResolvedKill ==
    /\ first_enc(first_blood_team) = 0
    /\ [][scan = "compute_features" =>
            first_enc(first_blood_team') =
                IF first_enc(first_blood_team) # 0 THEN first_enc(first_blood_team)
                ELSE IF Counted(ev', "CHAMPION_KILL") THEN Enc(TeamOfRef(ev'.killerId))
                ELSE 0]_vars

\* C16 witness: a kill with killer id 0 was scanned first and left the
\* marker open (team 200 has a death, nobody a kill); the kill by
\* participant 6 after 10 minutes then set first_blood to -1.
C16_Witness ==
    /\ scan = "compute_features"
    /\ nev = 2
    /\ ev.type = "CHAMPION_KILL" /\ ev.killerId = JInt(6) /\ ev.victimId = JInt(1)
    /\ ev.timestamp = JInt(CUT10 + 1)
    /\ first_enc(first_blood_team) = 0 - 1
    /\ base[200]["k15"] = 1 /\ base[100]["k15"] = 0
    /\ base[200]["d15"] = 1 /\ base[100]["d15"] = 1

\* Resolved assisting participants of e on team t.
AssistsOn(e, t) ==
    Cardinality({i \in DOMAIN AssistsOf(e) : TeamOfRef(AssistsOf(e)[i]) = t})

SameFields(fields) == \A t \in Teams, f \in fields : base'[t][f] = base[t][f]

\* C17: a reference to a participant id that is null, not convertible to an
\* integer or absent from the participant map credits no team: an
\* unresolved killer adds no kill and sets no first blood, an unresolved
\* victim no death, an unresolved assister no assist, an unresolved plate,
\* tower or monster killer (without killerTeamId 100 or 200) nothing, an
\* unresolved ward creator or ward killer nothing; the scan goes on.
C17_UnresolvedReferenceCreditsNoTeam ==
    [][/\ Counted(ev', "CHAMPION_KILL") =>
            /\ TeamOfRef(ev'.killerId) = 0 =>
                    SameFields({"k10", "k15"}) /\ first_blood_team' = first_blood_team
            /\ TeamOfRef(ev'.victimId) = 0 => SameFields({"d10", "d15"})
            /\ \A t \in Teams : base'[t]["a15"] = base[t]["a15"] + AssistsOn(ev', t)
       /\ (Counted(ev', "TURRET_PLATE_DESTROYED") /\ TeamOfRef(ev'.killerId) = 0)
            => base' = base
       /\ ((Counted(ev', "BUILDING_KILL") \/ Counted(ev', "ELITE_MONSTER_KILL"))
             /\ TeamOfRef(ev'.killerId) = 0
             /\ ev'.killerTeamId \notin {JInt(100), JInt(200)})
            => /\ base' = base
               /\ first_tower_team' = first_tower_team
               /\ first_drake_team' = first_drake_team
               /\ first_herald_team' = first_herald_team
       /\ (scan = "count_wards" /\ ev'.type = "WARD_PLACED"
             /\ TeamOfRef(ev'.creatorId) = 0) => c' = c
       /\ (scan = "count_wards" /\ ev'.type = "WARD_KILL"
             /\ TeamOfRef(ev'.killerId) = 0) => c' = c
       /\ nev' = nev + 1]_vars

\* C17 witness: a kill at 5 minutes with killer id 0, victim 6 and the
\* assisters 2, 7 and 0 has been scanned: one death, two assists, no kill.
C17_Witness ==
    /\ Counted(ev, "CHAMPION_KILL")
    /\ ev.killerId = JInt(0) /\ ev.victimId = JInt(6)
    /\ ev.assistingParticipantIds # None
    /\ nev = 1
    /\ base[100]["k15"] = 0 /\ base[200]["k15"] = 0
    /\ base[200]["d15"] = 1
    /\ base[100]["a15"] = 1 /\ base[200]["a15"] = 1
    /\ first_blood_team = 0

\* The team a building or monster kill is credited to: the killer's when
\* killerId resolves, else killerTeamId when it is 100 or 200, else none (0).
CreditedTeam(e) ==
    IF TeamOfRef(e.killerId) # 0 THEN TeamOfRef(e.killerId)
    ELSE IF e.killerTeamId = JInt(100) THEN 100
    ELSE IF e.killerTeamId = JInt(200) THEN 200
    ELSE 0

Plus(t, team) == IF t = team THEN 1 ELSE 0

Latched(marker, team) == IF marker = 0 /\ team # 0 THEN team ELSE marker

\* C18: a BUILDING_KILL at or before 15 minutes of type TOWER_BUILDING adds
\* one to towers15 of the credited team and latches first_tower to it if
\* still open; with no credited team, or any other building type, towers15
\* and first_tower stay; nothing else changes.
C18_TowerKillsOnly ==
    [][Counted(ev', "BUILDING_KILL") =>
        /\ IF ev'.buildingType = JStr("TOWER_BUILDING")
           THEN /\ \A t \in Teams :
                    base'[t]["towers15"] = base[t]["towers15"] + Plus(t, CreditedTeam(ev'))
                /\ first_tower_team' = Latched(first_tower_team, CreditedTeam(ev'))
           ELSE /\ SameFields({"towers15"})
                /\ first_tower_team' = first_tower_team
        /\ SameFields(ObjFields \ {"towers15"})
        /\ first_blood_team' = first_blood_team
        /\ first_drake_team' = first_drake_team
        /\ first_herald_team' = first_herald_team]_vars

\* C18 witness: an inhibitor kill by participant 1 changed nothing, then a
\* tower kill with killer id 0 and killerTeamId 200 went to team 200.
C18_Witness ==
    /\ Counted(ev, "BUILDING_KILL")
    /\ ev.buildingType = JStr("TOWER_BUILDING")
    /\ ev.killerId = JInt(0) /\ ev.killerTeamId = JInt(200)
    /\ nev = 2
    /\ base = [ZeroBase EXCEPT ![200]["towers15"] = 1]
    /\ first_tower_team = 200

\* C19: an ELITE_MONSTER_KILL at or before 15 minutes adds one to drakes15
\* of the credited team only for a DRAGON and to herald15 only for a
\* RIFTHERALD, latching first_drake or first_herald respectively when still
\* open, whatever the other marker holds; any other monster changes nothing.
C19_DrakesAndHeralds ==
    [][Counted(ev', "ELITE_MONSTER_KILL") =>
        LET team == CreditedTeam(ev')
            drake == ev'.monsterType = JStr("DRAGON")
            herald == ev'.monsterType = JStr("RIFTHERALD")
        IN /\ \A t \in Teams :
                /\ base'[t]["drakes15"] =
                        base[t]["drakes15"] + (IF drake THEN Plus(t, team) ELSE 0)
                /\ base'[t]["herald15"] =
                        base[t]["herald15"] + (IF herald THEN Plus(t, team) ELSE 0)
           /\ first_drake_team' =
                    IF drake THEN Latched(first_drake_team, team) ELSE first_drake_team
           /\ first_herald_team' =
                    IF herald THEN Latched(first_herald_team, team) ELSE first_herald_team
           /\ SameFields(ObjFields \ {"drakes15", "herald15"})
           /\ first_blood_team' = first_blood_team
           /\ first_tower_team' = first_tower_team]_vars

\* C19 witness: team 100 took the first dragon, then team 200 the first
\* herald: both markers are set, to different teams.
C19_Witness ==
    /\ Counted(ev, "ELITE_MONSTER_KILL")
    /\ ev.monsterType = JStr("RIFTHERALD")
    /\ first_drake_team = 100
    /\ first_herald_team = 200
    /\ base[100]["drakes15"] = 1 /\ base[200]["herald15"] = 1

WardStep(t, field, inc) == c'[t][field] = c[t][field] + inc

Bool(b) == IF b THEN 1 ELSE 0

\* C22: in count_wards a WARD_PLACED at or before 15 minutes whose creator
\* resolves to a team adds 1 to that team's wp15, 1 to its cwp15 exactly for
\* a CONTROL_WARD, and the same to wp10 and cwp10 iff the timestamp is at or
\* before 10 minutes; a WARD_KILL adds 1 to the killer team's wk15, and to
\* wk10 iff at or before 10 minutes; nothing else changes, and an event of
\* any other type changes no counter.  The six outputs are the differences
\* team 100 minus team 200 of the six counters.
C22_WardCounters ==
    [][scan = "count_wards" =>
        LET e == ev'
            live == AtOrBefore(e, CUT15)
            placedBy == IF live /\ e.type = "WARD_PLACED" THEN TeamOfRef(e.creatorId) ELSE 0
            killedBy == IF live /\ e.type = "WARD_KILL" THEN TeamOfRef(e.killerId) ELSE 0
            control == e.wardType = JStr("CONTROL_WARD")
            in10 == AtOrBefore(e, CUT10)
        IN /\ \A t \in Teams :
                /\ WardStep(t, "wp15", Bool(placedBy = t))
                /\ WardStep(t, "cwp15", Bool(placedBy = t /\ control))
                /\ WardStep(t, "wp10", Bool(placedBy = t /\ in10))
                /\ WardStep(t, "cwp10", Bool(placedBy = t /\ control /\ in10))
                /\ WardStep(t, "wk15", Bool(killedBy = t))
                /\ WardStep(t, "wk10", Bool(killedBy = t /\ in10))
           /\ e.type \notin {"WARD_PLACED", "WARD_KILL"} => c' = c
           /\ ward_diffs(c') =
                <<Entry("diff_wardsPlaced10", JInt(c'[100]["wp10"] - c'[200]["wp10"])),
                  Entry("diff_wardsKilled10", JInt(c'[100]["wk10"] - c'[200]["wk10"])),
                  Entry("diff_ctrlWardsPlaced10", JInt(c'[100]["cwp10"] - c'[200]["cwp10"])),
                  Entry("diff_wardsPlaced15", JInt(c'[100]["wp15"] - c'[200]["wp15"])),
                  Entry("diff_wardsKilled15", JInt(c'[100]["wk15"] - c'[200]["wk15"])),
                  Entry("diff_ctrlWardsPlaced15", JInt(c'[100]["cwp15"] - c'[200]["cwp15"]))>>]_vars

\* C22 witness: team 200 placed a control ward at 10 minutes, then team 100
\* a plain ward just after: the 10-minute differences are -1 and -1, the
\* 15-minute ones 0 and -1.
C22_Witness ==
    /\ scan = "count_wards"
    /\ nev = 2
    /\ ev.type = "WARD_PLACED" /\ ev.timestamp = JInt(CUT10 + 1) /\ ev.creatorId = JInt(1)
    /\ DictGet(ward_diffs(c), "diff_wardsPlaced10") = JInt(0 - 1)
    /\ DictGet(ward_diffs(c), "diff_ctrlWardsPlaced10") = JInt(0 - 1)
    /\ DictGet(ward_diffs(c), "diff_wardsPlaced15") = JInt(0)
    /\ DictGet(ward_diffs(c), "diff_ctrlWardsPlaced15") = JInt(0 - 1)

\* The counters of both scans with their 15-minute counterparts.
HorizonPairs == {<<"k10", "k15">>, <<"d10", "d15">>, <<"a10", "a15">>}

WardHorizonPairs == {<<"wp10", "wp15">>, <<"wk10", "wk15">>, <<"cwp10", "cwp15">>}

CountersOrdered ==
    \A t \in Teams :
        /\ \A h \in HorizonPairs : base[t][h[1]] <= base[t][h[2]]
        /\ \A h \in WardHorizonPairs : c[t][h[1]] <= c[t][h[2]]
        /\ c[t]["cwp10"] <= c[t]["wp10"]
        /\ c[t]["cwp15"] <= c[t]["wp15"]
        /\ \A f \in ObjFields : base[t][f] >= 0
        /\ \A f \in WardFields : c[t][f] >= 0

\* C23: after every prefix of a scan, for each team, each 10-minute counter
\* is at most its 15-minute counterpart, each control-ward counter at most
\* the ward-placed counter of its horizon, every counter is non-negative,
\* and no step of the scan lowers a counter.
C23_CountersOrderedAndMonotone ==
    /\ CountersOrdered
    /\ [][/\ CountersOrdered'
          /\ \A t \in Teams :
                /\ \A f \in ObjFields : base'[t][f] >= base[t][f]
                /\ \A f \in WardFields : c'[t][f] >= c[t][f]]_vars

\* C23 witness: two ward kills by team 200, one at 10 minutes and one at 15:
\* wk10 = 1 < wk15 = 2.
C23_Witness ==
    /\ scan = "count_wards"
    /\ ev.type = "WARD_KILL" /\ ev.timestamp = JInt(CUT15)
    /\ c[200]["wk10"] = 1
    /\ c[200]["wk15"] = 2

(***************************************************************************)
(* Properties of the team snapshots and of the team-level row.             *)
(***************************************************************************)
\* Minutes a snapshot may be asked for, in and out of every timeline's range.
QueryMinutes == (0 - 1)..(MaxFrames + 1)

SnapFields == {"totalGold", "xp", "cs", "levelSum", "participants_ok"}

\* The snapshot columns of team tid for minute m in the team-level row.
RowSnapCols(tid, m) ==
    {"t" \o ToString(tid) \o "_team_m" \o ToString(m) \o "_" \o f : f \in SnapFields}

\* The iterations of `for m in SNAP_MINUTES` already run on the current row.
MinutesDone == IF bpc \in {"minutes", "appended"} THEN {SNAP_MINUTES[i] : i \in 1..(mi - 1)} ELSE {}

HasFrame(minute) == minute >= 0 /\ minute < Len(tl.frames)

FrameAt(minute) == tl.frames[minute + 1].participantFrames

\* Positions in info.participants of the members of team tid.
Members(tid) == {i \in DOMAIN participants : participants[i].teamId = JInt(tid)}

PidKey(i) == StrOfPid(participants[i].participantId)

\* Members of team tid present in the frame at `minute`.
PresentMembers(tid, minute) ==
    LET pf == FrameAt(minute)
    IN {i \in Members(tid) : PidKey(i) \in DOMAIN pf}

\* Present members whose totalGold, xp and level are all non-null.
AggregatedMembers(tid, minute) ==
    LET pf == FrameAt(minute)
    IN {i \in Members(tid) :
           /\ PidKey(i) \in DOMAIN pf
           /\ pf[PidKey(i)].totalGold # None
           /\ pf[PidKey(i)].xp # None
           /\ pf[PidKey(i)].level # None}

\* minionsKilled + jungleMinionsKilled of a present member, null as 0.
CreepScore(i, minute) ==
    LET x == FrameAt(minute)[PidKey(i)]
    IN (IF x.minionsKilled = None THEN 0 ELSE x.minionsKilled.n)
       + (IF x.jungleMinionsKilled = None THEN 0 ELSE x.jungleMinionsKilled.n)

RECURSIVE SumCreepScore(_, _)
SumCreepScore(members, minute) ==
    IF members = {} THEN 0
    ELSE LET i == CHOOSE j \in members : TRUE
         IN CreepScore(i, minute) + SumCreepScore(members \ {i}, minute)

\* The state in which the match and timeline have just been drawn; both stay
\* fixed afterwards, so every input of the extractor occurs in such a state.
InputsDrawn == bpc = "load"

TeamSnapshot(tid, minute) ==
    extract_team_snapshot(tl.frames, minute, TeamIds(participants, tid))

FiveFive ==
    /\ Len(participants) = 10
    /\ Len(TeamIds(participants, 100)) = 5
    /\ Len(TeamIds(participants, 200)) = 5

\* C5: extract_team_snapshot returns the empty result, never a zero-filled
\* row, whenever the timeline has no frame at index = minute (minute < 0 or
\* minute >= number of frames); the team row then has no t100_/t200_
\* snapshot column for that minute.
C5_NoFrameNoSnapshot ==
    /\ \A minute \in QueryMinutes, tid \in Teams :
            ~HasFrame(minute) => TeamSnapshot(tid, minute) = <<>>
    /\ \A m \in MinutesDone, tid \in Teams :
            ~HasFrame(m) => RowSnapCols(tid, m) \cap DictKeys(team_base) = {}

\* C5 witness: the row of a match whose timeline has 8 frames is complete
\* and carries no minute-10 snapshot column.
C5_Witness ==
    /\ bpc = "appended" /\ Len(tl.frames) = 8
    /\ ~DictHas(team_base, "t100_team_m10_totalGold")
    /\ DictHas(team_base, "team100_win")

\* The value of team tid's snapshot column `field` for minute m in the row.
RowSnap(tid, m, field) ==
    DictGet(team_base, "t" \o ToString(tid) \o "_team_m" \o ToString(m) \o "_" \o field)

\* C6 (as claimed): with 10 participants split 5/5, a returned snapshot's
\* creep-score total is the sum of minionsKilled + jungleMinionsKilled over
\* the team's members present in the queried frame.
C6_CsOverPresentMembers ==
    \A m \in MinutesDone, tid \in Teams :
        (FiveFive /\ RowSnap(tid, m, "cs") # None)
        => RowSnap(tid, m, "cs") = JInt(SumCreepScore(PresentMembers(tid, m), m))

\* C6 (amended): the creep-score total is that sum over the members present
\* in the frame whose totalGold, xp and level are all non-null; so for every
\* snapshot the extractor returns and for every one main wrote to the row.
C6_CsOverAggregatedMembers ==
    /\ InputsDrawn => \A minute \in QueryMinutes, tid \in Teams :
            LET snap == TeamSnapshot(tid, minute)
            IN (FiveFive /\ snap # <<>>)
               => DictGet(snap, TeamCol(minute, "cs"))
                     = JInt(SumCreepScore(AggregatedMembers(tid, minute), minute))
    /\ \A m \in MinutesDone, tid \in Teams :
            (FiveFive /\ RowSnap(tid, m, "cs") # None)
            => RowSnap(tid, m, "cs") = JInt(SumCreepScore(AggregatedMembers(tid, m), m))

\* C6 witness: the row carries team 100's minute-10 creep score while
\* participant 2 is in that frame with a null totalGold.
C6_Witness ==
    /\ bpc = "appended"
    /\ DictHas(team_base, "t100_team_m10_cs")
    /\ "2" \in DOMAIN FrameAt(10) /\ FrameAt(10)["2"].totalGold = None

\* C7 (as claimed): a snapshot is yielded only if every member of the
\* requested team is present in that minute's frame.
C7_SnapshotNeedsAllMembers ==
    \A m \in MinutesDone, tid \in Teams :
        RowSnap(tid, m, "participants_ok") # None
        => PresentMembers(tid, m) = Members(tid)

\* C7 (amended): a snapshot is yielded iff the frame exists and at least one
\* member of the team is present in it with non-null totalGold, xp and
\* level; absent members are skipped and participants_ok counts the members
\* aggregated.
C7_SnapshotNeedsOneMember ==
    /\ InputsDrawn => \A minute \in QueryMinutes, tid \in Teams :
            LET snap == TeamSnapshot(tid, minute)
            IN /\ snap # <<>> <=> (HasFrame(minute) /\ AggregatedMembers(tid, minute) # {})
               /\ snap # <<>>
                     => DictGet(snap, TeamCol(minute, "participants_ok"))
                           = JInt(Cardinality(AggregatedMembers(tid, minute)))
    /\ \A m \in MinutesDone, tid \in Teams :
            /\ RowSnap(tid, m, "participants_ok") # None
                  <=> (HasFrame(m) /\ AggregatedMembers(tid, m) # {})
            /\ RowSnap(tid, m, "participants_ok") # None
                  => RowSnap(tid, m, "participants_ok")
                        = JInt(Cardinality(AggregatedMembers(tid, m)))

\* C7 witness: the row carries a minute-10 snapshot of team 100 built from
\* four members, participant 1 being absent from the frame.
C7_Witness ==
    /\ bpc = "appended"
    /\ DictGet(team_base, "t100_team_m10_participants_ok") = JInt(4)
    /\ "1" \notin DOMAIN FrameAt(10)

\* C8: in the team-level row the gold (and xp) delta of a minute is present
\* iff both teams produced a snapshot for that minute, and then equals the
\* team-100 total minus the team-200 total; otherwise it is left missing.
DeltaRight(m, what, field) ==
    LET col == "delta_m" \o ToString(m) \o "_" \o what \o "_100_minus_200"
        v100 == DictGet(team_base, "t100_team_m" \o ToString(m) \o "_" \o field)
        v200 == DictGet(team_base, "t200_team_m" \o ToString(m) \o "_" \o field)
    IN /\ DictHas(team_base, col)
            <=> (TeamSnapshot(100, m) # <<>> /\ TeamSnapshot(200, m) # <<>>)
       /\ DictHas(team_base, col)
            => (v100 # None /\ v200 # None
                /\ DictGet(team_base, col) = JInt(v100.n - v200.n))

C8_DeltaOnlyWhenBothSnapshots ==
    \A m \in MinutesDone : DeltaRight(m, "gold", "totalGold") /\ DeltaRight(m, "xp", "xp")

\* C8 witness: a finished row with the minute-10 gold delta, and with team
\* 100's minute-15 snapshot but neither team 200's nor the minute-15 delta.
C8_Witness ==
    /\ bpc = "appended"
    /\ DictHas(team_base, "delta_m10_gold_100_minus_200")
    /\ DictHas(team_base, "t100_team_m15_totalGold")
    /\ ~DictHas(team_base, "t200_team_m15_totalGold")
    /\ ~DictHas(team_base, "delta_m15_gold_100_minus_200")

(***************************************************************************)
(* The augment scripts as a state machine: augment_objectives,             *)
(* augment_more and augment_champ_roles run one after the other over the   *)
(* same match/ and timeline/ directories, each merging its feature table   *)
(* onto the table the previous one wrote.                                  *)
(***************************************************************************)
MaxRows == 3

\* The file stems, in the order sorted() and sort_values give them.
IdOrder == <<"EUW1_1", "EUW1_2">>

FileIds == SeqSet(IdOrder)

\* The identifiers a base table may hold: metadata.matchId need not be the
\* stem of a file.
BaseIds == FileIds \cup {"EUW1_3"}

IdRank(id) == CHOOSE i \in DOMAIN IdOrder : IdOrder[i] = id

\* A match whose participants carry no team position.
RolelessMatch == [i \in 1..10 |-> [FullMatch[i] EXCEPT !.teamPosition = JStr("")]]

\* A match with two TOP players on team 100, and on team 200 a TOP player
\* without a champion followed by a second TOP player.
OddMatch ==
    [i \in 1..10 |->
        IF i = 2 THEN [FullMatch[i] EXCEPT !.teamPosition = JStr("TOP")]
        ELSE IF i = 6 THEN [FullMatch[i] EXCEPT !.championId = None]
        ELSE IF i = 7 THEN [FullMatch[i] EXCEPT !.teamPosition = JStr("TOP")]
        ELSE FullMatch[i]]

\* info.participants of match/<id>.json
MatchParticipants(id) == IF id = "EUW1_1" THEN OddMatch ELSE RolelessMatch

\* The same record, cut to its first nine participants when short.
MatchRecord(id, short) ==
    IF short THEN SubSeq(MatchParticipants(id), 1, 9) ELSE MatchParticipants(id)

WardAt10 == Event("WARD_PLACED", JInt(CUT10), None, None, None, JInt(6),
                  JStr("CONTROL_WARD"), None, None, None)

DrakeAt11 == Event("ELITE_MONSTER_KILL", JInt(CUT10 + 60 * 1000), JInt(1), None, None,
                   None, None, None, JStr("DRAGON"), None)

KillAtMin5 == Event("CHAMPION_KILL", JInt(Min5), JInt(1), JInt(6), None,
                    None, None, None, None, None)

WithEvents(frame, events) ==
    [timestamp |-> frame.timestamp, participantFrames |-> frame.participantFrames,
     events |-> events]

\* info.frames of timeline/<id>.json: 13 one-minute frames with a kill, a
\* control ward and a dragon for the first match, none for the second.
TimelineFrames(id) ==
    IF id = "EUW1_1"
    THEN [idx \in 1..13 |->
            WithEvents(FullFrames[idx - 1],
                       IF idx - 1 = 5 THEN <<KillAtMin5>>
                       ELSE IF idx - 1 = 10 THEN <<WardAt10>>
                       ELSE IF idx - 1 = 11 THEN <<DrakeAt11>>
                       ELSE <<>>)]
    ELSE <<>>

\* The rows the three scripts build, by file stem.
ObjectivesRow ==
    [id \in FileIds |-> [short \in BOOLEAN |->
        compute_features(id, MatchRecord(id, short), TimelineFrames(id))]]

MoreRow ==
    [id \in FileIds |-> [short \in BOOLEAN |->
        more_row(id, MatchRecord(id, short), TimelineFrames(id))]]

ChampRolesRow ==
    [id \in FileIds |-> [short \in BOOLEAN |-> champ_roles_row(id, MatchRecord(id, short))]]

\* build_dataset.extract_participant_snapshot
extract_participant_snapshot(frames, minute, participant_id) ==
    LET frame == get_frame(frames, minute)
        key == StrOfPid(participant_id)
        M(f) == "m" \o ToString(minute) \o "_" \o f
    IN IF frame = None THEN <<>>
       ELSE IF key \notin DOMAIN frame.participantFrames THEN <<>>
       ELSE LET x == frame.participantFrames[key]
            IN <<Entry(M("totalGold"), x.totalGold), Entry(M("xp"), x.xp),
                 Entry(M("level"), x.level), Entry(M("minionsKilled"), x.minionsKilled),
                 Entry(M("jungleMinionsKilled"), x.jungleMinionsKilled)>>

\* build_dataset.main: the team-level row of one match.
TeamRow(id, parts, frames) ==
    LET RECURSIVE Minutes(_, _)
        Minutes(row, k) ==
            IF k > Len(SNAP_MINUTES) THEN row
            ELSE Minutes(SnapMinute(row, frames, parts, SNAP_MINUTES[k]), k + 1)
        snaps == Minutes(DictSet(BaseMatch, "matchId", JStr(id)), 1)
    IN DictSet(DictSet(snaps, "team100_win", JInt(1)), "team200_win", JInt(0))

\* build_dataset.main: the participant-level rows of one match.
ParticipantRows(id, parts, frames) ==
    [i \in DOMAIN parts |->
        LET RECURSIVE Minutes(_, _)
            Minutes(row, k) ==
                IF k > Len(SNAP_MINUTES) THEN row
                ELSE Minutes(DictSetAll(row, "",
                                extract_participant_snapshot(frames, SNAP_MINUTES[k],
                                                             parts[i].participantId)),
                             k + 1)
            row == DictSet(BaseMatch, "matchId", JStr(id))
                    \o <<Entry("teamId", parts[i].teamId),
                          Entry("participantId", parts[i].participantId),
                          Entry("championId", parts[i].championId),
                          Entry("teamPosition", parts[i].teamPosition)>>
        IN Minutes(row, 1)]

\* Mutant of BuildRows: the participant count is not checked.
BuildRowsAnyCount ==
    [id \in FileIds |-> [short \in BOOLEAN |->
        LET parts == MatchRecord(id, short)
        IN [team |-> <<TeamRow(id, parts, TimelineFrames(id))>>,
            participant |-> ParticipantRows(id, parts, TimelineFrames(id))]]]

\* build_dataset.main: the rows a match file adds to the two tables; none
\* without its timeline file or without exactly 10 participants.
BuildRows ==
    [id \in FileIds |-> [short \in BOOLEAN |->
        LET parts == MatchRecord(id, short)
        IN IF Len(parts) # 10 THEN [team |-> <<>>, participant |-> <<>>]
           ELSE [team |-> <<TeamRow(id, parts, TimelineFrames(id))>>,
                 participant |-> ParticipantRows(id, parts, TimelineFrames(id))]]]

\* df.sort_values("match_id"): a stable sort of the rows by identifier.
sort_values(t, col) ==
    LET RECURSIVE Insert(_, _)
        Insert(sorted, r) ==
            IF sorted = <<>> THEN <<r>>
            ELSE IF IdRank(r[col].s) < IdRank(Head(sorted)[col].s)
            THEN <<r>> \o sorted
            ELSE <<Head(sorted)>> \o Insert(Tail(sorted), r)
        RECURSIVE Sort(_, _)
        Sort(rows, acc) ==
            IF rows = <<>> THEN acc ELSE Sort(Tail(rows), Insert(acc, Head(rows)))
    IN Table(t.cols, Sort(t.rows, <<>>))

\* pd.read_csv of a written file: an empty field is a missing value.
read_csv(file) ==
    Table(file.cols,
          [i \in DOMAIN file.rows |->
              [col \in SeqSet(file.cols) |->
                  IF file.rows[i][col] = JStr("") THEN None ELSE file.rows[i][col]]])

\* The stems a script walks: sorted(glob("*.json")), as a sequence.
Sorted(ids) == SelectSeq(IdOrder, LAMBDA id : id \in ids)

\* A row of teams.csv as build_dataset writes it, without the snapshot columns.
TeamsRow(id) == DictSet(DictSet(BaseMatch, "matchId", JStr(id)), "team100_win", JInt(1))

RECURSIVE SeqsUpTo(_, _)
SeqsUpTo(S, n) ==
    IF n = 0 THEN {<<>>}
    ELSE LET shorter == SeqsUpTo(S, n - 1)
         IN shorter \cup {Append(q, x) : q \in {r \in shorter : Len(r) = n - 1}, x \in S}

\* The teams.csv files the chain starts from: any sequence of identifiers,
\* repeated or unknown to match/ and timeline/ included; a table without an
\* identifier column; a table whose identifier column is MatchID, after
\* another column; no file at all.
TeamsTables ==
    {DataFrame([i \in DOMAIN ids |-> TeamsRow(ids[i])]) : ids \in SeqsUpTo(BaseIds, MaxRows)}
    \cup {Table(<<"gameId", "team100_win">>,
                <<[col \in {"gameId", "team100_win"} |-> JInt(1)]>>),
          Table(<<"team100_win", "MatchID">>,
                [i \in 1..2 |-> [col \in {"team100_win", "MatchID"} |->
                    IF col = "MatchID" THEN JStr(IF i = 1 THEN "EUW1_1" ELSE "EUW1_3")
                    ELSE JInt(1)]]),
          NoTable}

\* Either the chain starts from a teams.csv found in out/, or build_dataset
\* runs first and writes it.
MergeInit ==
    /\ matchFiles \in SUBSET FileIds
    /\ tlFiles \in SUBSET FileIds
    /\ \/ /\ \E teams \in TeamsTables :
                out = [f \in OutFiles |-> IF f = "teams.csv" THEN teams ELSE NoTable]
          /\ stage = 1
          /\ shortIds = {}
       \/ /\ out = [f \in OutFiles |-> NoTable]
          /\ stage = 0
          /\ shortIds \in SUBSET FileIds
    /\ err = NoErrors
    /\ run = 1
    /\ firstOut = [f \in OutFiles |-> NoTable]
    \* no event scan is running
    /\ scan = "idle"
    /\ pid2team = get_participant_team_map(FullMatch)
    /\ base = ZeroBase
    /\ first_blood_team = 0
    /\ first_drake_team = 0
    /\ first_tower_team = 0
    /\ first_herald_team = 0
    /\ c = ZeroWards
    /\ ev = NoEvent
    /\ nev = 0
    \* build_dataset is not running
    /\ participants = FullMatch
    /\ tl = NoTimeline
    /\ bpc = "idle"
    /\ mi = 1
    /\ team_base = <<>>
    /\ team_rows = <<>>
    \* no row function is being called
    /\ infoFrames = <<>>
    /\ call = "idle"
    /\ cutoff = 0
    /\ picked = None
    /\ mrow = <<>>
    /\ reordered = <<>>
    /\ feats = <<>>
    /\ featsReordered = <<>>

\* Mutant of MergeOnto: the base is the merged file itself once it exists.
MergeOntoInPlace(files, rows, featFile, baseFile, mergedFile) ==
    LET feat == DataFrame(rows)
        baseNow == IF files[mergedFile].exists THEN mergedFile ELSE baseFile
    IN IF "match_id" \notin SeqSet(feat.cols)
       THEN [out |-> files, err |-> "KeyError"]
       ELSE LET sorted == sort_values(feat, "match_id")
                written == [files EXCEPT ![featFile] = sorted]
            IN IF ~files[baseNow].exists
               THEN [out |-> written, err |-> "FileNotFoundError"]
               ELSE IF files[baseNow].cols = <<>>
               THEN [out |-> written, err |-> "EmptyDataError"]
               ELSE LET table == read_csv(files[baseNow])
                        key_col == KeyCol(table.cols)
                    IN IF key_col = ""
                       THEN [out |-> written, err |-> "SystemExit"]
                       ELSE [out |-> [written EXCEPT ![mergedFile] =
                                         LeftMerge(table, sorted, key_col, "match_id")],
                             err |-> ""]

\* The common tail of the three mains: build and sort the feature table,
\* write it, read the base table, find its identifier column, merge, write.
\* Result: the files of out/ afterwards and the exception raised, if any.
MergeOnto(files, rows, featFile, baseFile, mergedFile) ==
    LET feat == DataFrame(rows)
    IN IF "match_id" \notin SeqSet(feat.cols)
       THEN [out |-> files, err |-> "KeyError"]
       ELSE LET sorted == sort_values(feat, "match_id")
                written == [files EXCEPT ![featFile] = sorted]
            IN IF ~files[baseFile].exists
               THEN [out |-> written, err |-> "FileNotFoundError"]
               ELSE IF files[baseFile].cols = <<>>
               THEN [out |-> written, err |-> "EmptyDataError"]
               ELSE LET table == read_csv(files[baseFile])
                        key_col == KeyCol(table.cols)
                    IN IF key_col = ""
                       THEN [out |-> written, err |-> "SystemExit"]
                       ELSE [out |-> [written EXCEPT ![mergedFile] =
                                         LeftMerge(table, sorted, key_col, "match_id")],
                             err |-> ""]

\* build_dataset.main over the files of match/ in sorted order.
BuildDataset ==
    /\ stage = 0
    /\ LET ids == SelectSeq(Sorted(matchFiles), LAMBDA id : id \in tlFiles)
           team_rows_all == Flatten([i \in DOMAIN ids |->
                                BuildRows[ids[i]][ids[i] \in shortIds].team])
           rows_all == Flatten([i \in DOMAIN ids |->
                                BuildRows[ids[i]][ids[i] \in shortIds].participant])
       IN out' = [out EXCEPT !["participants.csv"] = DataFrame(rows_all),
                             !["teams.csv"] = DataFrame(team_rows_all)]
    /\ stage' = 1
    /\ UNCHANGED <<matchFiles, tlFiles, err, run, shortIds, firstOut, scanVars, buildVars, rowVars>>

\* The stems augment_objectives and augment_more build rows for: timeline
\* files with a match file of the same stem.
Paired == Sorted(tlFiles \cap matchFiles)

AugmentObjectives ==
    /\ stage = 1
    /\ LET rows == [i \in DOMAIN Paired |-> ObjectivesRow[Paired[i]][Paired[i] \in shortIds]]
           res == MergeOnto(out, rows, "objectives.csv", "teams.csv", "teams_plus.csv")
       IN /\ out' = res.out
          /\ err' = [err EXCEPT ![1] = res.err]
    /\ stage' = 2
    /\ UNCHANGED <<matchFiles, tlFiles, run, shortIds, firstOut, scanVars, buildVars, rowVars>>

AugmentMore ==
    /\ stage = 2
    /\ LET rows == [i \in DOMAIN Paired |-> MoreRow[Paired[i]][Paired[i] \in shortIds]]
           res == MergeOnto(out, rows, "more.csv", "teams_plus.csv", "teams_plus_more.csv")
       IN /\ out' = res.out
          /\ err' = [err EXCEPT ![2] = res.err]
    /\ stage' = 3
    /\ UNCHANGED <<matchFiles, tlFiles, run, shortIds, firstOut, scanVars, buildVars, rowVars>>

AugmentChampRoles ==
    /\ stage = 3
    /\ LET ids == Sorted(matchFiles)
           rows == [i \in DOMAIN ids |-> ChampRolesRow[ids[i]][ids[i] \in shortIds]]
           res == MergeOnto(out, rows, "champ_roles.csv", "teams_plus_more.csv",
                            "teams_full.csv")
       IN /\ out' = res.out
          /\ err' = [err EXCEPT ![3] = res.err]
    /\ stage' = 4
    /\ UNCHANGED <<matchFiles, tlFiles, run, shortIds, firstOut, scanVars, buildVars, rowVars>>

\* The chain is started again over the same match/, timeline/ and
\* out/teams.csv; out/ still holds what the first run wrote.
RerunChain ==
    /\ stage = 4
    /\ run = 1
    /\ run' = 2
    /\ firstOut' = out
    /\ stage' = 1
    /\ err' = NoErrors
    /\ UNCHANGED <<matchFiles, tlFiles, out, shortIds, scanVars, buildVars, rowVars>>

MergeNext ==
    BuildDataset \/ AugmentObjectives \/ AugmentMore \/ AugmentChampRoles \/ RerunChain

(***************************************************************************)
(* Properties of the merges.                                               *)
(***************************************************************************)
\* The three merges: base file, feature file, merged file.
Merges ==
    {<<"teams.csv", "objectives.csv", "teams_plus.csv">>,
     <<"teams_plus.csv", "more.csv", "teams_plus_more.csv">>,
     <<"teams_plus_more.csv", "champ_roles.csv", "teams_full.csv">>}

Merged(m) == out[m[3]]

BaseOf(m) == read_csv(out[m[1]])

FeatOf(m) == out[m[2]]

\* The base table's identifiers, row by row.
IdsOf(t) == [i \in DOMAIN t.rows |-> t.rows[i][KeyCol(t.cols)]]

\* The identifiers of the feature table.
FeatIds(m) == {FeatOf(m).rows[j]["match_id"] : j \in DOMAIN FeatOf(m).rows}

\* The columns the merge added: those after the base table's.
NewCols(m) == SubSeq(Merged(m).cols, Len(BaseOf(m).cols) + 1, Len(Merged(m).cols))

AllMissing(m, i) == \A col \in SeqSet(NewCols(m)) : Merged(m).rows[i][col] = None

Unmatched(m) == {i \in DOMAIN BaseOf(m).rows : IdsOf(BaseOf(m))[i] \notin FeatIds(m)}

\* C9: in each of the three merges the merged table has as many rows as the
\* base table, and its identifiers, row by row, are the base table's: the
\* left join neither adds, drops nor reorders rows.
C9_MergeKeepsRows ==
    \A m \in Merges :
        Merged(m).exists =>
            /\ Len(Merged(m).rows) = Len(BaseOf(m).rows)
            /\ [i \in DOMAIN Merged(m).rows |-> Merged(m).rows[i][KeyCol(BaseOf(m).cols)]]
                    = IdsOf(BaseOf(m))

\* All three merges done on a base table of MaxRows rows that repeats an
\* identifier and holds one the feature tables lack.
C9_Witness ==
    /\ stage = 4
    /\ \A m \in Merges : Merged(m).exists
    /\ LET ids == IdsOf(BaseOf(<<"teams.csv", "objectives.csv", "teams_plus.csv">>))
       IN /\ Len(ids) = MaxRows
          /\ \E i, j \in DOMAIN ids : i < j /\ ids[i] = ids[j] /\ ids[i] \in FeatIds(<<"teams.csv", "objectives.csv", "teams_plus.csv">>)
          /\ \E i \in DOMAIN ids : ids[i] \notin FeatIds(<<"teams.csv", "objectives.csv", "teams_plus.csv">>)
          /\ ids[1] = JStr("EUW1_2")
          /\ Cardinality(FeatIds(<<"teams.csv", "objectives.csv", "teams_plus.csv">>)) = 2

MergeOf == <<<<"teams.csv", "objectives.csv", "teams_plus.csv">>,
             <<"teams_plus.csv", "more.csv", "teams_plus_more.csv">>,
             <<"teams_plus_more.csv", "champ_roles.csv", "teams_full.csv">>>>

Aliases == {"match_id", "matchid"}

IsAlias(col) == Lower(col) \in Aliases

\* Script n got as far as looking for the identifier column: it built
\* feature rows and found a base file with columns.
ReachedKeySearch(n) ==
    /\ stage > n
    /\ err[n] \notin {"KeyError", "FileNotFoundError", "EmptyDataError"}

\* C11: a script that gets to read its base table either finds no column
\* whose lower-cased name is match_id or matchid, ends with SystemExit and
\* writes no merged table; or joins on the first such column in column order:
\* each merged row carries the feature table's identifier exactly when that
\* column's value occurs in the feature table.
C11_FirstAliasColumnOrFatal ==
    \A n \in DOMAIN MergeOf :
        ReachedKeySearch(n) =>
            LET m == MergeOf[n]
                cols == BaseOf(m).cols
                hits == {i \in DOMAIN cols : IsAlias(cols[i])}
            IN IF hits = {}
               THEN err[n] = "SystemExit" /\ ~Merged(m).exists
               ELSE LET first == cols[CHOOSE i \in hits : \A j \in hits : i <= j]
                    IN /\ err[n] = ""
                       /\ Merged(m).exists
                       /\ Len(Merged(m).rows) = Len(BaseOf(m).rows)
                       /\ Len(NewCols(m)) = Len(FeatOf(m).cols)
                       /\ \A i \in DOMAIN Merged(m).rows :
                            Merged(m).rows[i][NewCols(m)[1]] =
                                IF BaseOf(m).rows[i][first] \in FeatIds(m)
                                THEN BaseOf(m).rows[i][first]
                                ELSE None

\* C11 witness: the second script joined on matchId although its base table
\* also holds a match_id column with a different value in some row, and the
\* first script joined on a MatchID column that is not the first column.
C11_Witness ==
    /\ stage > 2
    /\ err[2] = ""
    /\ LET b == BaseOf(MergeOf[2])
       IN /\ {"matchId", "match_id"} \subseteq SeqSet(b.cols)
          /\ \E i \in DOMAIN b.rows : b.rows[i]["matchId"] # b.rows[i]["match_id"]
          /\ \E i \in DOMAIN b.rows : b.rows[i]["matchId"] \in FeatIds(MergeOf[2])

\* C12: when the chain has run a second time over the same match/,
\* timeline/ and teams.csv, every file of out/ equals what the first run
\* left: same columns, same rows in the same order, same values.
C12_SecondRunSameTables ==
    (run = 2 /\ stage = 4) => out = firstOut

\* Two full runs, each writing all six tables, on a teams.csv of MaxRows rows.
C12_Witness ==
    /\ run = 2
    /\ stage = 4
    /\ \A f \in OutFiles \ {"participants.csv"} : out[f].exists
    /\ Len(out["teams_full.csv"].rows) = MaxRows
    /\ \E i \in DOMAIN out["teams_full.csv"].rows : AllMissing(MergeOf[3], i)
    /\ \E i \in DOMAIN out["teams_full.csv"].rows : ~AllMissing(MergeOf[3], i)

\* The identifiers a written table holds in the given column.
ColumnIds(file, col) ==
    IF out[file].exists /\ col \in SeqSet(out[file].cols)
    THEN {out[file].rows[i][col] : i \in DOMAIN out[file].rows}
    ELSE {}

\* Stems with both files, and stems lacking one of them.
PairedIds == matchFiles \cap tlFiles

UnpairedIds == (matchFiles \cup tlFiles) \ PairedIds

BuildRan == stage >= 1 /\ out["participants.csv"].exists

ObjectivesRowOf(id) == ObjectivesRow[id][(id \in shortIds)]

MoreRowOf(id) == MoreRow[id][(id \in shortIds)]

\* The feature table of script n holds exactly the rows of the paired stems.
FeatureRowsOfPaired(n, file, Row(_)) ==
    stage > n =>
        /\ err[n] # "KeyError"
        /\ out[file].exists
        /\ ColumnIds(file, "match_id") = {JStr(id) : id \in PairedIds}
        /\ \A id \in PairedIds : \E i \in DOMAIN out[file].rows :
                out[file].rows[i] = DataFrame(<<Row(id)>>).rows[1]

\* C13: in build_dataset, augment_objectives and augment_more a stem whose
\* match file or timeline file is absent yields no row and no error: the
\* script runs to its output, which holds the rows of the other matches and
\* none of that stem.
C13_UnpairedMatchSkippedSilently ==
    UnpairedIds # {} =>
        /\ BuildRan =>
              /\ \A id \in UnpairedIds :
                    /\ JStr(id) \notin ColumnIds("teams.csv", "matchId")
                    /\ JStr(id) \notin ColumnIds("participants.csv", "matchId")
              /\ \A id \in PairedIds \ shortIds :
                    JStr(id) \in ColumnIds("teams.csv", "matchId")
        /\ FeatureRowsOfPaired(1, "objectives.csv", ObjectivesRowOf)
        /\ FeatureRowsOfPaired(2, "more.csv", MoreRowOf)

\* The matches build_dataset drops for their participant count.
ExcludedIds == {id \in PairedIds : Len(MatchRecord(id, id \in shortIds)) # 10}

FeatureFiles == {"objectives.csv", "more.csv", "champ_roles.csv"}

MergedFiles == {"teams_plus.csv", "teams_plus_more.csv", "teams_full.csv"}

NoBuildRowOf(id) ==
    /\ out["teams.csv"].exists
    /\ JStr(id) \notin ColumnIds("teams.csv", "matchId")
    /\ JStr(id) \notin ColumnIds("participants.csv", "matchId")

OthersBuilt ==
    \A id \in PairedIds \ ExcludedIds :
        /\ \E i \in DOMAIN out["teams.csv"].rows :
                out["teams.csv"].rows[i]["matchId"] = JStr(id)
        /\ Cardinality({i \in DOMAIN out["participants.csv"].rows :
                            out["participants.csv"].rows[i]["matchId"] = JStr(id)}) = 10

C15_MergeAppendsColumnsOnly ==
    \A m \in Merges :
        Merged(m).exists =>
            /\ Len(Merged(m).cols) = Len(BaseOf(m).cols) + Len(FeatOf(m).cols)
            /\ SubSeq(Merged(m).cols, 1, Len(BaseOf(m).cols)) = BaseOf(m).cols
            /\ NewCols(m) = FeatOf(m).cols
            /\ \A i \in DOMAIN Merged(m).rows :
                    \A col \in SeqSet(BaseOf(m).cols) :
                        Merged(m).rows[i][col] = BaseOf(m).rows[i][col]

\* The participants of the match behind row i of champ_roles.csv.
RowParticipants(i) ==
    LET id == out["champ_roles.csv"].rows[i]["match_id"].s
    IN MatchRecord(id, id \in shortIds)

\* Positions in the participant list holding role r on team t.
Holders(parts, t, r) ==
    {k \in DOMAIN parts : parts[k].teamId = JInt(t) /\ parts[k].teamPosition = JStr(r)}

First(S) == CHOOSE k \in S : \A l \in S : k <= l

\* C20 as stated: each (team, role) column of champ_roles.csv holds the
\* champion id of the first participant in list order on that team with that
\* role, and is missing when there is none.
C20_FirstHolderFillsSlot ==
    out["champ_roles.csv"].exists =>
        \A i \in DOMAIN out["champ_roles.csv"].rows : \A t \in Teams, n \in DOMAIN ROLES :
            LET parts == RowParticipants(i)
                held == Holders(parts, t, ROLES[n])
            IN out["champ_roles.csv"].rows[i][ChampCol(t, ROLES[n])] =
                    IF held = {} THEN None ELSE parts[First(held)].championId

\* C20 amended: each (team, role) column holds the champion id of the first
\* participant in list order on that team with that role and a champion id;
\* later ones never replace it; it is missing when there is none.
C20_FirstHolderWithChampionFillsSlot ==
    out["champ_roles.csv"].exists =>
        \A i \in DOMAIN out["champ_roles.csv"].rows : \A t \in Teams, n \in DOMAIN ROLES :
            LET parts == RowParticipants(i)
                held == {k \in Holders(parts, t, ROLES[n]) : parts[k].championId # None}
            IN out["champ_roles.csv"].rows[i][ChampCol(t, ROLES[n])] =
                    IF held = {} THEN None ELSE parts[First(held)].championId

\* champ_roles.csv holds the row of the match with two TOP players per team:
\* team 100 keeps the first one's champion, team 200 the second one's because
\* the first has none; no JUNGLE player on either team.
C20_Witness ==
    /\ out["champ_roles.csv"].exists
    /\ \E i \in DOMAIN out["champ_roles.csv"].rows :
            LET row == out["champ_roles.csv"].rows[i]
            IN /\ row["match_id"] = JStr("EUW1_1")
               /\ row["t100_TOP_champ"] = JInt(11)
               /\ row["t200_TOP_champ"] = JInt(17)
               /\ row["t100_JUNGLE_champ"] = None
               /\ row["t200_UTILITY_champ"] = JInt(20)

(***************************************************************************)
(* The row functions on one timeline: pick_frame and the row of            *)
(* augment_more.main on frame lists in any timestamp order, and the two    *)
(* event scans on a timeline and on the same events in another order.      *)
(***************************************************************************)
MaxPick == 3        \* frames of a timeline drawn for pick_frame
MaxShuffle == 3     \* events of a timeline drawn for reordering

\* Frame timestamps at the two cutoffs (the later one is after the earlier
\* cutoff); None is a frame without one.
Stamps == {None, JInt(CUT8), JInt(CUT12)}

AllAbsent == TeamPattern("absent", "absent", "absent", "absent", "absent")

\* Both teams in the frame, team 200 only (one null totalGold), nobody.
StampedPatterns ==
    {FullPair,
     <<AllAbsent, TeamPattern("full", "nullGold", "full", "full", "full")>>,
     <<AllAbsent, AllAbsent>>}

MinuteOf(ts) == IF ts = None THEN 0 ELSE ts.n \div (60 * 1000)

StampedFrame(ts, pp) ==
    [timestamp |-> ts,
     participantFrames |-> Frame(MinuteOf(ts), pp[1], pp[2]).participantFrames,
     events |-> <<>>]

StampedFrames == {StampedFrame(ts, pp) : ts \in Stamps, pp \in StampedPatterns}

KillBy6 == Event("CHAMPION_KILL", JInt(CUT10 + 1), JInt(6), JInt(1), JList(<<JInt(7)>>),
                 None, None, None, None, None)

LateKill == Event("CHAMPION_KILL", JInt(CUT15 + 1), JInt(6), JInt(1), None,
                  None, None, None, None, None)

\* Events of both scans, of both teams, within and after the horizons.
OrderEvents == {KillAtMin5, KillBy6, WardAt10, DrakeAt11, LateKill}

\* Two one-minute frames holding the first k events and the others; the
\* timelines drawn hold no or one event in the first frame.
Split(events, k) ==
    <<WithEvents(FullFrames[0], SubSeq(events, 1, k)),
      WithEvents(FullFrames[1], SubSeq(events, k + 1, Len(events)))>>

\* The timelines the row functions are called on.
RowTimelines ==
    SeqsUpTo(StampedFrames, MaxPick)
    \cup UNION {{Split(q, k) : k \in 0..Len(q) \cap 0..1} :
                    q \in SeqsUpTo(OrderEvents, MaxShuffle)}

Permutation(n) == {p \in [1..n -> 1..n] : \A i, j \in 1..n : p[i] = p[j] => i = j}

\* The diff_* and first_* columns of both scans for one match.
event_features(frames) ==
    compute_features("EUW1_1", FullMatch, frames)
        \o count_wards(frames, get_pid2team(FullMatch))

RowInit ==
    /\ infoFrames \in RowTimelines
    /\ call = "input"
    /\ cutoff = 0
    /\ picked = None
    /\ mrow = <<>>
    /\ reordered = <<>>
    /\ feats = <<>>
    /\ featsReordered = <<>>
    \* no event scan is running
    /\ scan = "idle"
    /\ pid2team = get_participant_team_map(FullMatch)
    /\ base = ZeroBase
    /\ first_blood_team = 0
    /\ first_drake_team = 0
    /\ first_tower_team = 0
    /\ first_herald_team = 0
    /\ c = ZeroWards
    /\ ev = NoEvent
    /\ nev = 0
    \* build_dataset is not running
    /\ participants = FullMatch
    /\ tl = NoTimeline
    /\ bpc = "idle"
    /\ mi = 1
    /\ team_base = <<>>
    /\ team_rows = <<>>
    \* no augment script is running
    /\ matchFiles = {}
    /\ tlFiles = {}
    /\ out = [f \in OutFiles |-> NoTable]
    /\ stage = 0
    /\ err = NoErrors
    /\ run = 0
    /\ shortIds = {}
    /\ firstOut = [f \in OutFiles |-> NoTable]

PickFrame(cut_ms) ==
    /\ call = "input"
    /\ call' = "pick_frame"
    /\ cutoff' = cut_ms
    /\ picked' = pick_frame(infoFrames, cut_ms)
    /\ UNCHANGED <<infoFrames, mrow, reordered, feats, featsReordered,
                   scanVars, buildVars, mergeVars>>

MoreMainRow ==
    /\ call = "input"
    /\ call' = "main"
    /\ mrow' = more_row("EUW1_1", FullMatch, infoFrames)
    /\ UNCHANGED <<infoFrames, cutoff, picked, reordered, feats, featsReordered,
                   scanVars, buildVars, mergeVars>>

\* The frames with their event slots filled, in order, from events.
Refill(frames, events) ==
    [i \in DOMAIN frames |->
        LET before == Len(FrameEvents(SubSeq(frames, 1, i - 1)))
        IN WithEvents(frames[i],
                      SubSeq(events, before + 1, before + Len(frames[i].events)))]

\* Both scans on the timeline and on its events moved, within and across
\* the frames, into the order p.
Reorder(p) ==
    /\ call = "input"
    /\ call' = "reorder"
    /\ LET events == FrameEvents(infoFrames)
       IN reordered' = Refill(infoFrames, [i \in 1..Len(events) |-> events[p[i]]])
    /\ feats' = event_features(infoFrames)
    /\ featsReordered' = event_features(reordered')
    /\ UNCHANGED <<infoFrames, cutoff, picked, mrow, scanVars, buildVars, mergeVars>>

RowNext ==
    \/ \E cut_ms \in {CUT8, CUT12} : PickFrame(cut_ms)
    \/ MoreMainRow
    \/ \E p \in Permutation(Len(FrameEvents(infoFrames))) : Reorder(p)

(***************************************************************************)
(* Properties of the row functions.                                        *)
(***************************************************************************)
Stamped(i) == infoFrames[i].timestamp # None

Within(i) == Stamped(i) /\ infoFrames[i].timestamp.n <= cutoff

Later(i) == Stamped(i) /\ infoFrames[i].timestamp.n > cutoff

\* picked is a latest frame among those at or before the cutoff.
LatestWithin ==
    \E i \in DOMAIN infoFrames :
        /\ Within(i)
        /\ picked = infoFrames[i]
        /\ \A j \in DOMAIN infoFrames :
                Within(j) => infoFrames[j].timestamp.n <= infoFrames[i].timestamp.n

\* The frames with a timestamp are in non-decreasing timestamp order.
Monotone ==
    \A i, j \in DOMAIN infoFrames :
        i < j /\ Stamped(i) /\ Stamped(j)
            => infoFrames[i].timestamp.n <= infoFrames[j].timestamp.n

\* The frames at or before the cutoff that precede every frame after it.
Candidates ==
    {i \in DOMAIN infoFrames : Within(i) /\ \A j \in 1..i : ~Later(j)}

OrderColumns == {"first_blood", "first_drake", "first_tower", "first_herald"}

Columns(row) == {row[i].key : i \in DOMAIN row}

\* reordered holds the events of infoFrames, each as often.
SameEvents ==
    LET a == FrameEvents(infoFrames)
        b == FrameEvents(reordered)
    IN /\ Len(a) = Len(b)
       /\ \A e \in OrderEvents :
            Cardinality({i \in DOMAIN a : a[i] = e}) = Cardinality({i \in DOMAIN b : b[i] = e})

\* C24: every diff_* column of compute_features and count_wards has the same
\* value for a timeline and for the same events in any other order, within
\* and across frames; the columns that differ are among the four first_*.
C24_DiffsIgnoreEventOrder ==
    call = "reorder" =>
        /\ SameEvents
        /\ Columns(feats) = Columns(featsReordered)
        /\ \A col \in Columns(feats) \ OrderColumns :
                DictGet(feats, col) = DictGet(featsReordered, col)

\* C24 witness: a kill of each team in one order and in the other: first
\* blood goes to the other team, the kill differences stay.
C24_Witness ==
    /\ call = "reorder"
    /\ FrameEvents(infoFrames) = <<KillAtMin5, KillBy6>>
    /\ FrameEvents(reordered) = <<KillBy6, KillAtMin5>>
    /\ DictGet(feats, "first_blood") = JInt(1)
    /\ DictGet(featsReordered, "first_blood") = JInt(0 - 1)
    /\ DictGet(feats, "diff_k10") = JInt(1)
    /\ DictGet(featsReordered, "diff_k10") = JInt(1)

EconOf(obj, f) ==
    CASE f = "gold" -> OrZero(obj.totalGold)
      [] f = "xp" -> OrZero(obj.xp)
      [] f = "cs" -> OrZero(obj.minionsKilled) + OrZero(obj.jungleMinionsKilled)
      [] f = "lvl" -> OrZero(obj.level)

\* Participants of team t with a snapshot in the frame.
InFrame(frame, t) ==
    IF frame = None THEN {}
    ELSE {i \in DOMAIN FullMatch :
            /\ FullMatch[i].teamId = JInt(t)
            /\ StrOfPid(FullMatch[i].participantId) \in DOMAIN frame.participantFrames}

RECURSIVE SumOver(_, _, _)
SumOver(frame, members, f) ==
    IF members = {} THEN 0
    ELSE LET i == CHOOSE m \in members : TRUE
         IN EconOf(frame.participantFrames[StrOfPid(FullMatch[i].participantId)], f)
                + SumOver(frame, members \ {i}, f)

TeamTotal(frame, t, f) == SumOver(frame, InFrame(frame, t), f)

Windows == {<<"m8", CUT8>>, <<"m12", CUT12>>}

DeltaName(w, f) == "delta_" \o w \o "_" \o f \o "_100_minus_200"

\* C25: the eight delta_m8_*/delta_m12_* columns of a match's row are always
\* numbers: each is the total of team 100 minus the total of team 200 over
\* the participants the selected frame holds, a team without a snapshot
\* there, or a timeline without frames, counting as 0; the delta is 0 when
\* both teams are absent.
C25_WindowDeltasAlwaysNumbers ==
    call = "main" =>
        \A w \in Windows, f \in EconFields :
            LET v == DictGet(mrow, DeltaName(w[1], f))
                frame == pick_frame(infoFrames, w[2])
            IN /\ v.k = "int"
               /\ v.n = TeamTotal(frame, 100, f) - TeamTotal(frame, 200, f)
               /\ InFrame(frame, 100) = {} /\ InFrame(frame, 200) # {}
                    => v.n = 0 - TeamTotal(frame, 200, f)
               /\ InFrame(frame, 100) = {} /\ InFrame(frame, 200) = {} => v.n = 0
               /\ infoFrames = <<>> => v.n = 0

\* C25 witness: the frame selected for minute 8 holds team 200 only and the
\* one for minute 12 nobody: the minute-8 gold delta is minus team 200's
\* gold, the minute-12 one is 0.
C25_Witness ==
    /\ call = "main"
    /\ Len(infoFrames) = 2
    /\ InFrame(pick_frame(infoFrames, CUT8), 100) = {}
    /\ InFrame(pick_frame(infoFrames, CUT8), 200) # {}
    /\ InFrame(pick_frame(infoFrames, CUT12), 100) = {}
    /\ InFrame(pick_frame(infoFrames, CUT12), 200) = {}
    /\ DictGet(mrow, "delta_m8_gold_100_minus_200").n < 0
    /\ DictGet(mrow, "delta_m12_gold_100_minus_200") = JInt(0)

(***************************************************************************)
(* Specifications.                                                         *)
(***************************************************************************)
SpecScan == ScanInit /\ [][ScanNext]_vars

SpecBuild == BuildInit /\ [][BuildNext]_vars

SpecMerge == MergeInit /\ [][MergeNext]_vars

SpecRow == RowInit /\ [][RowNext]_vars

====
